---- MODULE Spec2Model ----
(***************************************************************************)
(* Semantic chunking pipeline of the knowledge base                        *)
(* (src/lib/kb/text-processing.js): text normalisation, sentence           *)
(* splitting, cosine similarity and semanticChunk; and the live listener   *)
(* of the bot.                                                             *)
(*                                                                         *)
(* Specifications.                                                         *)
(*  - Spec      one call of semanticChunk, step by step, the awaited       *)
(*              provider being any implementation of './embeddings'        *)
(*  - SpecText  calls of the text normaliser                               *)
(*  - SpecSimilarity  calls of the similarity engine                       *)
(*  - SpecEmbeddings  calls of generateEmbeddingsBatch and                 *)
(*              generateEmbeddingsBatched (src/unnamed/part_002), the      *)
(*              OpenAI API being the environment                           *)
(*  - SpecConcurrent  two calls of semanticChunk whose steps interleave    *)
(*              around their awaits                                        *)
(*  - SpecOpenAI  one call of semanticChunk with generateEmbeddingsBatch   *)
(*              of src/unnamed/part_002 as the provider                    *)
(*  - SpecSplit  one call of splitIntoSentences, match by match           *)
(*  - SpecListener  the MessageCreate handler of the live listener        *)
(*              (src/index-live-listener.ts), its runs interleaving at     *)
(*              their awaits, with the questions table                     *)
(*  - SpecUrls  calls of URLExtractor.extractURLs                           *)
(*              (src/lib/url-extractor.ts), one after another, with the    *)
(*              lastIndex of the module's LOOM_URL_REGEX                   *)
(*  - SpecGuards  calls of normalizeText, splitIntoSentences, isTooShort   *)
(*              and truncateText with any JavaScript value as argument     *)
(*                                                                         *)
(* Representation.                                                         *)
(*  - A JavaScript string is a sequence of one-character strings.          *)
(*    Indices in the operators below are 0-based, as in the source, and    *)
(*    are shifted by one only where a TLA+ sequence is accessed.           *)
(*  - An optional property (options.threshold, ...) is a set: {} when the  *)
(*    property is undefined and {v} when it holds the value v.             *)
(*  - Thresholds are integers in hundredths (0.7 is 70).  A similarity is  *)
(*    the exact quotient num/den of the division on line 464.  Embedding   *)
(*    components are integers and the vectors of the model have an         *)
(*    integral magnitude, so that Math.sqrt and the product of the two     *)
(*    magnitudes are exact in double arithmetic and the comparison on      *)
(*    line 272 is the comparison of the exact values.                      *)
(***************************************************************************)
EXTENDS Integers, Sequences, FiniteSets, TLC

\* ------------------------------------------------------------------------
\* Characters
\* ------------------------------------------------------------------------

\* \s of the regular expressions, restricted to the alphabet of the model
Whitespace == {" ", "\t", "\n"}

\* [A-Z]
UpperCase == {"A","B","C","D","E","F","G","H","I","J","K","L","M",
              "N","O","P","Q","R","S","T","U","V","W","X","Y","Z"}

\* [a-z]
LowerCase == {"a","b","c","d","e","f","g","h","i","j","k","l","m",
              "n","o","p","q","r","s","t","u","v","w","x","y","z"}

\* [A-Za-z]
Letters == UpperCase \cup LowerCase

\* [.!?]
SentenceEnd == {".", "!", "?"}

\* ------------------------------------------------------------------------
\* String primitives of JavaScript
\* ------------------------------------------------------------------------

Min(a, b) == IF a < b THEN a ELSE b

Max(a, b) == IF a > b THEN a ELSE b

\* String.prototype.substring(start, end): both indices are clamped to
\* [0, length] and swapped when start > end
Substring(s, start, end) ==
    LET a == Max(0, Min(start, Len(s)))
        b == Max(0, Min(end, Len(s)))
    IN  SubSeq(s, Min(a, b) + 1, Max(a, b))

RECURSIVE TrimStart(_)
TrimStart(s) ==
    IF s # <<>> /\ Head(s) \in Whitespace THEN TrimStart(Tail(s)) ELSE s

RECURSIVE TrimEnd(_)
TrimEnd(s) ==
    IF s # <<>> /\ s[Len(s)] \in Whitespace
    THEN TrimEnd(SubSeq(s, 1, Len(s) - 1))
    ELSE s

\* String.prototype.trim()
Trim(s) == TrimEnd(TrimStart(s))

\* number of consecutive characters of the set cs in s from 0-based index k
RECURSIVE RunLength(_, _, _)
RunLength(s, k, cs) ==
    IF k < Len(s) /\ s[k + 1] \in cs THEN 1 + RunLength(s, k + 1, cs) ELSE 0

\* (variant: .replace(/\s\s/g, ' '), the pairs of whitespace characters)
RECURSIVE ReplaceWhitespacePairs(_)
ReplaceWhitespacePairs(s) ==
    IF s = <<>> THEN <<>>
    ELSE IF Len(s) >= 2 /\ s[1] \in Whitespace /\ s[2] \in Whitespace
         THEN <<" ">> \o ReplaceWhitespacePairs(SubSeq(s, 3, Len(s)))
         ELSE <<Head(s)>> \o ReplaceWhitespacePairs(Tail(s))

\* .replace(/\s+/g, ' ')
RECURSIVE ReplaceWhitespaceRuns(_)
ReplaceWhitespaceRuns(s) ==
    IF s = <<>> THEN <<>>
    ELSE IF Head(s) \in Whitespace
         THEN <<" ">> \o ReplaceWhitespaceRuns(
                            SubSeq(s, RunLength(s, 0, Whitespace) + 1, Len(s)))
         ELSE <<Head(s)>> \o ReplaceWhitespaceRuns(Tail(s))

\* .replace(/\n{3,}/g, '\n\n')
RECURSIVE ReplaceNewlineRuns(_)
ReplaceNewlineRuns(s) ==
    IF s = <<>> THEN <<>>
    ELSE IF Head(s) = "\n"
         THEN LET n == RunLength(s, 0, {"\n"})
              IN  (IF n >= 3 THEN <<"\n", "\n">> ELSE SubSeq(s, 1, n))
                  \o ReplaceNewlineRuns(SubSeq(s, n + 1, Len(s)))
         ELSE <<Head(s)>> \o ReplaceNewlineRuns(Tail(s))

\* Array.prototype.join(' ') over an array of strings
RECURSIVE Join(_)
Join(texts) ==
    IF texts = <<>> THEN <<>>
    ELSE IF Len(texts) = 1 THEN texts[1]
    ELSE texts[1] \o <<" ">> \o Join(Tail(texts))

\* ------------------------------------------------------------------------
\* Text normaliser
\* ------------------------------------------------------------------------

\* normalizeText: '' for a falsy text, else trim, collapse whitespace runs,
\* collapse newline runs, trim
normalizeText(text) ==
    IF text = <<>> THEN <<>>
    ELSE Trim(ReplaceNewlineRuns(ReplaceWhitespaceRuns(Trim(text))))

\* index of the next match of /([.!?])(\s+|$)/g at or after the 0-based index
\* from; -1 when exec returns null
RECURSIVE NextMatch(_, _)
NextMatch(s, from) ==
    IF from >= Len(s) THEN -1
    ELSE IF /\ s[from + 1] \in SentenceEnd
            /\ (from + 1 = Len(s) \/ s[from + 2] \in Whitespace)
         THEN from
         ELSE NextMatch(s, from + 1)

\* match[0].length: the punctuation mark and the whitespace run after it
MatchLength(s, index) == 1 + RunLength(s, index + 1, Whitespace)

\* the while loop of splitIntoSentences; from is the lastIndex of the regular
\* expression, lastIndex the start of the sentence being collected
RECURSIVE SplitLoop(_, _, _, _)
SplitLoop(normalized, from, lastIndex, sentences) ==
    LET index == NextMatch(normalized, from)
    IN  IF index = -1
        THEN [sentences |-> sentences, lastIndex |-> lastIndex]
        ELSE
          LET endIndex   == index + 1
              sentence   == Trim(Substring(normalized, lastIndex, endIndex))
              next       == index + MatchLength(normalized, index)
              isAbbreviation ==
                  index - 1 >= 0 /\ normalized[index] \in Letters
              afterIsCapital ==
                  normalized[index + 3] \in UpperCase
          IN  IF Len(sentence) > 0 /\ Len(sentence) > 2
              THEN IF isAbbreviation /\ index + 2 < Len(normalized)
                   THEN IF afterIsCapital
                        THEN SplitLoop(normalized, next, next,
                                       Append(sentences, sentence))
                        ELSE SplitLoop(normalized, next, lastIndex, sentences)
                   ELSE SplitLoop(normalized, next, next,
                                  Append(sentences, sentence))
              ELSE SplitLoop(normalized, next, lastIndex, sentences)

\* splitIntoSentences
splitIntoSentences(text) ==
    IF text = <<>> THEN <<>>
    ELSE
      LET normalized == ReplaceWhitespaceRuns(Trim(text))
      IN  IF Len(normalized) = 0 THEN <<>>
          ELSE
            LET loop      == SplitLoop(normalized, 0, 0, <<>>)
                remaining == Trim(Substring(normalized, loop.lastIndex,
                                            Len(normalized)))
                sentences ==
                    IF loop.lastIndex < Len(normalized) /\ Len(remaining) > 0
                    THEN Append(loop.sentences, remaining)
                    ELSE loop.sentences
            IN  IF Len(sentences) = 0 THEN <<normalized>> ELSE sentences

\* ------------------------------------------------------------------------
\* The exported text functions applied to any JavaScript value
\* ------------------------------------------------------------------------

\* a JavaScript value: its type and, as the type has it, its characters, its
\* number, its truth value or its elements
JsValue(type, str, num, bool, items) ==
    [type |-> type, str |-> str, num |-> num, bool |-> bool, items |-> items]

JsUndefined == JsValue("undefined", <<>>, 0, FALSE, <<>>)
JsNull == JsValue("null", <<>>, 0, FALSE, <<>>)
JsObject == JsValue("object", <<>>, 0, FALSE, <<>>)
JsBoolean(b) == JsValue("boolean", <<>>, 0, b, <<>>)
JsNumber(n) == JsValue("number", <<>>, n, FALSE, <<>>)
JsString(s) == JsValue("string", s, 0, FALSE, <<>>)
JsArray(items) == JsValue("array", <<>>, 0, FALSE, items)

\* !v
Falsy(v) ==
    \/ v.type \in {"undefined", "null"}
    \/ v.type = "boolean" /\ ~v.bool
    \/ v.type = "number" /\ v.num = 0
    \/ v.type = "string" /\ Len(v.str) = 0

\* the guard of lines 21, 98, 117 and 132: !text || typeof text !== 'string'
NotText(text) == Falsy(text) \/ text.type # "string"

\* the outcome of a call: the value returned, or the error thrown
Returns(value) == [threw |-> FALSE, error |-> "none", value |-> value]
Throws(error) == [threw |-> TRUE, error |-> error, value |-> JsUndefined]

\* a parameter with a default value: the default when it is undefined
OrDefaultUndefined(param, default) ==
    IF param = {} THEN default ELSE CHOOSE v \in param : TRUE

\* normalizeText called with any value
normalizeTextOf(text) ==
    IF NotText(text) THEN Returns(JsString(<<>>))
    ELSE Returns(JsString(normalizeText(text.str)))

\* splitIntoSentences called with any value
splitIntoSentencesOf(text) ==
    IF NotText(text) THEN Returns(JsArray(<<>>))
    ELSE Returns(JsArray(splitIntoSentences(text.str)))

\* isTooShort(text, minLength = 10); minLength is {} when it is undefined
isTooShort(text, minLength) ==
    IF NotText(text) THEN Returns(JsBoolean(TRUE))
    ELSE Returns(JsBoolean(Len(Trim(text.str)) < OrDefaultUndefined(minLength, 10)))

\* truncateText(text, maxLength, suffix = '...'); maxLength is a number,
\* suffix undefined, null or a string.  Reading suffix.length throws a
\* TypeError when suffix is null.
truncateText(text, maxLength, suffix) ==
    IF NotText(text) THEN Returns(JsString(<<>>))
    ELSE IF Len(text.str) <= maxLength THEN Returns(text)
    ELSE IF suffix.type = "null"
         THEN Throws("TypeError: Cannot read properties of null")
    ELSE LET sfx == IF suffix.type = "undefined" THEN <<".", ".", ".">>
                    ELSE suffix.str
         IN  Returns(JsString(Substring(text.str, 0, maxLength - Len(sfx))
                              \o sfx))

\* ------------------------------------------------------------------------
\* Vector similarity engine
\* ------------------------------------------------------------------------

\* the sum of vecA[i] * vecB[i] over the indices of vecA
RECURSIVE SumProducts(_, _)
SumProducts(vecA, vecB) ==
    IF vecA = <<>> THEN 0
    ELSE Head(vecA) * Head(vecB) + SumProducts(Tail(vecA), Tail(vecB))

\* dotProduct, defined when the lengths agree (it throws otherwise)
dotProduct(vecA, vecB) == SumProducts(vecA, vecB)

\* Math.sqrt on the sums of squares of the model, which are perfect squares
Sqrt(n) == CHOOSE r \in 0..n : r * r = n

\* magnitude
magnitude(vec) == Sqrt(SumProducts(vec, vec))

\* (variant: no test of the zero magnitude; 0 / 0 is NaN, written 0/0)
BatchElementUnguarded(baseVector, vecB) ==
    [num |-> dotProduct(baseVector, vecB),
     den |-> magnitude(baseVector) * magnitude(vecB)]

\* one element of the map callback of cosineSimilarityBatch: the quotient
\* dot / (magA * magB), or 0 when either magnitude is 0
BatchElement(baseVector, vecB) ==
    LET magA == magnitude(baseVector)
        dot  == dotProduct(baseVector, vecB)
        magB == magnitude(vecB)
    IN  IF magA = 0 \/ magB = 0
        THEN [num |-> 0, den |-> 1]
        ELSE [num |-> dot, den |-> magA * magB]

\* (variant: no length check; an element of another length gives NaN, which
\* no comparison accepts: a similarity below every threshold)
cosineSimilarityBatchUnchecked(baseVector, vectors) ==
    [threw |-> FALSE,
     value |-> [k \in 1..Len(vectors) |->
                   IF Len(vectors[k]) # Len(baseVector)
                   THEN [num |-> -2, den |-> 1]
                   ELSE BatchElement(baseVector, vectors[k])]]

\* the outcome of dotProduct: it throws when the lengths differ
dotProductCall(vecA, vecB) ==
    IF Len(vecA) # Len(vecB)
    THEN [threw |-> TRUE, error |-> "Vector length mismatch",
          value |-> 0]
    ELSE [threw |-> FALSE, error |-> "none", value |-> dotProduct(vecA, vecB)]

\* (variant: no test of the empty vector, as in the map callback of
\* cosineSimilarityBatch)
cosineSimilarityUnguarded(vecA, vecB) ==
    IF Len(vecA) # Len(vecB)
    THEN [threw |-> TRUE, error |-> "Vector length mismatch",
          value |-> [num |-> 0, den |-> 1]]
    ELSE [threw |-> FALSE, error |-> "none",
          value |-> IF magnitude(vecA) = 0 \/ magnitude(vecB) = 0
                    THEN [num |-> 0, den |-> 1]
                    ELSE [num |-> dotProduct(vecA, vecB),
                          den |-> magnitude(vecA) * magnitude(vecB)]]

\* cosineSimilarity of two arrays: it throws when the lengths differ and when
\* the vectors are empty, returns 0 when a magnitude is 0, else the quotient
\* dot / (magA * magB)
cosineSimilarity(vecA, vecB) ==
    IF Len(vecA) # Len(vecB)
    THEN [threw |-> TRUE, error |-> "Vector length mismatch",
          value |-> [num |-> 0, den |-> 1]]
    ELSE IF Len(vecA) = 0
    THEN [threw |-> TRUE, error |-> "Vectors must not be empty",
          value |-> [num |-> 0, den |-> 1]]
    ELSE [threw |-> FALSE, error |-> "none",
          value |-> IF magnitude(vecA) = 0 \/ magnitude(vecB) = 0
                    THEN [num |-> 0, den |-> 1]
                    ELSE [num |-> dotProduct(vecA, vecB),
                          den |-> magnitude(vecA) * magnitude(vecB)]]

\* cosineSimilarityBatch: throws when an element's length differs from the
\* length of baseVector, else returns one similarity per element
cosineSimilarityBatch(baseVector, vectors) ==
    IF \E k \in 1..Len(vectors) : Len(vectors[k]) # Len(baseVector)
    THEN [threw |-> TRUE, value |-> <<>>]
    ELSE [threw |-> FALSE,
          value |-> [k \in 1..Len(vectors) |->
                        BatchElement(baseVector, vectors[k])]]

\* similarity >= threshold, the threshold being in hundredths
AtLeast(similarity, t) == similarity.num * 100 >= t * similarity.den

\* ------------------------------------------------------------------------
\* Embedding provider (src/unnamed/part_002)
\* ------------------------------------------------------------------------

\* CONFIG.EMBEDDING_DIMENSIONS, scaled to the vectors of the model (1536 in
\* the source)
EMBEDDING_DIMENSIONS == 2

\* CONFIG.MAX_BATCH_SIZE, scaled to the arrays of the model (2048 in the
\* source)
MAX_BATCH_SIZE == 3

\* lines 86-88: the texts trimmed, the empty ones filtered out
ValidTexts(texts) ==
    SelectSeq([k \in 1..Len(texts) |-> Trim(texts[k])],
              LAMBDA text : Len(text) > 0)

\* lines 81-97: the error generateEmbeddingsBatch throws before any request,
\* "none" when it goes on to the request
BatchPrecheck(texts) ==
    IF Len(texts) = 0 THEN "Texts must be a non-empty array"
    ELSE IF Len(ValidTexts(texts)) = 0 THEN "No valid texts provided"
    ELSE IF Len(ValidTexts(texts)) > MAX_BATCH_SIZE
         THEN "Batch size exceeds maximum"
    ELSE "none"

\* lines 105-117: the error thrown on the response data, "none" when the
\* embeddings are returned
VerifyResponse(data, validTexts) ==
    IF Len(data) # Len(validTexts) THEN "Unexpected response length"
    ELSE IF \E k \in 1..Len(data) : Len(data[k]) # EMBEDDING_DIMENSIONS
         THEN "Unexpected embedding dimensions"
    ELSE "none"

\* (variant: one request for each text)
IssueRequestPerText(reqs, input) ==
    reqs \o [k \in 1..Len(input) |-> <<input[k]>>]

\* lines 100-103: openaiClient.embeddings.create with all the valid texts as
\* input; reqs is the history of the requests sent
IssueRequest(reqs, input) == Append(reqs, input)

\* texts.slice(start, end)
Slice(texts, start, end) == Substring(texts, start, end)

\* ------------------------------------------------------------------------
\* Semantic chunker: configuration and pure parts
\* ------------------------------------------------------------------------

\* CONFIG.SIMILARITY_THRESHOLD (0.7, SEMANTIC_CHUNKING_THRESHOLD not set)
SIMILARITY_THRESHOLD == 70

\* CONFIG.MIN_CHUNK_LENGTH
MIN_CHUNK_LENGTH == 10

\* CONFIG.MAX_CHUNK_LENGTH
MAX_CHUNK_LENGTH == 2000

\* option || default: the default replaces an undefined or falsy (0) option
OrDefault(option, default) ==
    IF option = {} \/ option = {0} THEN default
    ELSE CHOOSE v \in option : TRUE

\* null
Null == [null |-> TRUE]

\* the sentence records pushed for one message (lines 215-234)
SentencesOf(message, sentenceIndex) ==
    LET normalizedContent == normalizeText(message.content)
        messageSentences  ==
            IF Len(normalizedContent) = 0 THEN <<>>
            ELSE SelectSeq(splitIntoSentences(normalizedContent),
                           LAMBDA sentence : Len(Trim(sentence)) > 0)
    IN  [k \in 1..Len(messageSentences) |->
           [text              |-> Trim(messageSentences[k]),
            author_role       |-> IF message.isTeam THEN "team" ELSE "client",
            message_timestamp |-> message.timestamp,
            message_index     |-> sentenceIndex + k - 1,
            original_message  |-> message]]

\* the loop over the messages (lines 211-235)
RECURSIVE PrepareSentences(_, _)
PrepareSentences(msgs, acc) ==
    IF msgs = <<>> THEN acc
    ELSE PrepareSentences(Tail(msgs), acc \o SentencesOf(Head(msgs), Len(acc)))

\* (variant: the new accumulator also keeps the sentence before k)
NewChunkOverlapping(sents, embs, k) ==
    [sentences      |-> IF k = 0 THEN <<sents[1]>>
                        ELSE <<sents[k], sents[k + 1]>>,
     embeddings     |-> IF k = 0 THEN <<embs[1]>>
                        ELSE <<embs[k], embs[k + 1]>>,
     startTimestamp |-> sents[k + 1].message_timestamp,
     author_role    |-> sents[k + 1].author_role]

\* lines 257-262 and 289-294: the accumulator seeded with the sentence of
\* 0-based index k
NewChunk(sents, embs, k) ==
    [sentences      |-> <<sents[k + 1]>>,
     embeddings     |-> <<embs[k + 1]>>,
     startTimestamp |-> sents[k + 1].message_timestamp,
     author_role    |-> sents[k + 1].author_role]

\* (variant: the start timestamp follows the pushed sentence)
PushSentenceRestamped(chunk, sents, embs, k) ==
    [chunk EXCEPT
       !.sentences      = Append(@, sents[k + 1]),
       !.embeddings     = Append(@, embs[k + 1]),
       !.startTimestamp = sents[k + 1].message_timestamp,
       !.author_role    = IF sents[k + 1].author_role = "client"
                          THEN "client" ELSE @]

\* (variant: the running role is left as it was)
PushSentenceKeepsRole(chunk, sents, embs, k) ==
    [chunk EXCEPT
       !.sentences  = Append(@, sents[k + 1]),
       !.embeddings = Append(@, embs[k + 1])]

\* lines 274-280: the accumulator after the sentence of 0-based index k was
\* pushed
PushSentence(chunk, sents, embs, k) ==
    [chunk EXCEPT
       !.sentences   = Append(@, sents[k + 1]),
       !.embeddings  = Append(@, embs[k + 1]),
       !.author_role = IF sents[k + 1].author_role = "client"
                       THEN "client" ELSE @]

\* chunk.sentences.map(s => s.text).join(' ')
JoinedContent(chunk) ==
    Join([k \in 1..Len(chunk.sentences) |-> chunk.sentences[k].text])

\* (variant: a content of exactly minLength characters is dropped too)
TooShortInclusive(content, minLength) == Len(content) <= minLength

\* line 324: the content is below the minimum length
TooShort(content, minLength) == Len(content) < minLength

\* (variant: the suffix is counted in maxLength, as truncateText does)
FinalContentWithin(content, maxLength) ==
    IF Len(content) > maxLength
    THEN Substring(content, 0, maxLength - 3) \o <<".", ".", ".">>
    ELSE content

\* lines 331-333: the content, cut after maxLength characters
FinalContent(content, maxLength) ==
    IF Len(content) > maxLength
    THEN Substring(content, 0, maxLength) \o <<".", ".", ".">>
    ELSE content

\* (variant: the role of the first sentence)
FirstSentenceRole(chunk) == chunk.sentences[1].author_role

\* lines 339-340: client if any sentence is the client's
ChunkRole(chunk) ==
    LET hasClient ==
            \E k \in 1..Len(chunk.sentences) :
               chunk.sentences[k].author_role = "client"
    IN  IF hasClient THEN "client" ELSE chunk.author_role

\* finalizeChunk
finalizeChunk(chunk, minLength, maxLength) ==
    IF chunk = Null \/ Len(chunk.sentences) = 0 THEN Null
    ELSE
      LET content      == JoinedContent(chunk)
          finalContent == FinalContent(content, maxLength)
      IN  IF TooShort(content, minLength) THEN Null
          ELSE [content           |-> Trim(finalContent),
                author_role       |-> ChunkRole(chunk),
                message_timestamp |-> chunk.startTimestamp,
                metadata          |->
                    [sentence_count  |-> Len(chunk.sentences),
                     original_length |-> Len(content)]]

\* chunks after "if (finalizedChunk) chunks.push(finalizedChunk)"
PushFinalized(chs, finalizedChunk) ==
    IF finalizedChunk = Null THEN chs ELSE Append(chs, finalizedChunk)

\* ------------------------------------------------------------------------
\* Inputs of one semanticChunk call
\* ------------------------------------------------------------------------

\* largest number of messages passed to one call
MaxMsgs == 2

\* message contents: one short sentence, two sentences, whitespace only
Contents ==
    { <<"H","i",".">>,
      <<"O","k","."," ","G","o"," ","o","n"," ","n","o","w",".">>,
      <<" ","\n"," ">> }

\* the message arrays: any contents and authors, timestamps increasing with
\* the position
MessageArrays ==
    UNION { { [k \in 1..n |-> [content   |-> c[k],
                               isTeam    |-> t[k],
                               timestamp |-> 100 + k]] :
              c \in [1..n -> Contents], t \in [1..n -> BOOLEAN] } :
            n \in 0..MaxMsgs }

\* the options objects: each property undefined or supplied
OptionObjects ==
    { [threshold |-> t, minChunkLength |-> l[1], maxChunkLength |-> l[2]] :
        t \in { {}, {0}, {60}, {100}, {-100} },
        l \in { <<{}, {}>>, <<{0}, {0}>>, <<{4}, {5}>> } }

\* the embedding vectors a provider returns for a sentence
Vectors == { <<1, 0>>, <<3, 4>>, <<0, 0>> }

\* a vector of another length
ShortVector == <<1>>

\* the arrays the awaited call of line 246 may resolve to for n texts, for
\* any implementation of './embeddings' (lines 251 and 453 guard against one
\* that breaks its contract): one vector per text, one vector too few or too
\* many, or one vector of another length among them
ProviderResults(n) ==
    [1..n -> Vectors]
    \cup { [k \in 1..m |-> <<1, 0>>] : m \in {n - 1, n + 1} }
    \cup { [e EXCEPT ![k] = ShortVector] : e \in [1..n -> Vectors], k \in 1..n }

\* ------------------------------------------------------------------------
\* semanticChunk as a state machine
\* ------------------------------------------------------------------------

VARIABLES
    messages,        \* argument
    options,         \* argument
    pc,              \* "start", "await", "walk", "done" (returned), "failed" (threw)
    threshold,       \* const threshold (hundredths)
    minChunkLength,  \* const minChunkLength
    maxChunkLength,  \* const maxChunkLength
    sentences,       \* const sentences
    embeddings,      \* let embeddings
    chunks,          \* const chunks
    currentChunk,    \* let currentChunk
    i,               \* loop variable of the walk (0-based)
    returned,        \* the array the promise resolved to
    error,           \* the error the promise rejected with
    provider,        \* outcome of generateEmbeddingsBatch: "none", "resolved", "rejected"
    finalized,       \* history: every accumulator passed to finalizeChunk, with its result
    isArray          \* Array.isArray(messages); messages is <<>> when it is not

chunkVars == <<messages, options, pc, threshold, minChunkLength,
               maxChunkLength, sentences, embeddings, chunks, currentChunk,
               i, returned, error, provider, finalized, isArray>>

\* the text normaliser called on its own
VARIABLES
    txtPc,           \* "idle", "start", "once", "twice"
    txtInput,        \* the text passed to normalizeText
    txtFirst,        \* normalizeText(txtInput)
    txtSecond        \* normalizeText(txtFirst)

textVars == <<txtPc, txtInput, txtFirst, txtSecond>>

\* the similarity engine called on its own
VARIABLES
    simPc,           \* "idle", "run"
    simBase,         \* the first vector
    simVectors,      \* the array of second vectors
    simDone,         \* the calls made: "single", "batch", "dot"
    simSingle,       \* outcomes of cosineSimilarity(simBase, v), v in simVectors
    simBatch,        \* outcome of cosineSimilarityBatch(simBase, simVectors)
    simDot           \* outcomes of dotProduct(simBase, v), v in simVectors

simVars == <<simPc, simBase, simVectors, simDone, simSingle, simBatch, simDot>>

\* the embedding provider
VARIABLES
    embPc,           \* "idle", "start", "await", "delay", "resolved", "rejected"
    embFn,           \* "batch": generateEmbeddingsBatch, "batched": generateEmbeddingsBatched
    embTexts,        \* the argument texts
    embOffset,       \* the loop variable i of generateEmbeddingsBatched
    embResults,      \* the embeddings collected, returned when resolved
    embError,        \* the error thrown
    requests         \* history: the input of every request sent to the API

embVars == <<embPc, embFn, embTexts, embOffset, embResults, embError, requests>>

\* two concurrent calls of semanticChunk
VARIABLES
    callArgs,        \* the arguments of each call
    frames,          \* the local variables of each call and its position
    outcomes         \* history: what the awaited provider call of each call settled to

concurrentVars == <<callArgs, frames, outcomes>>

\* a call of one of the exported text functions
VARIABLES
    gPc,             \* "idle", "start", "done"
    gFn,             \* the function called
    gText,           \* the argument text, any value
    gLength,         \* the argument minLength or maxLength
    gSuffix,         \* the argument suffix
    gResult          \* the outcome of the call

guardVars == <<gPc, gFn, gText, gLength, gSuffix, gResult>>

\* one call of splitIntoSentences
VARIABLES
    spPc,            \* "idle", "start", "loop", "done"
    spText,          \* the argument
    spNormalized,    \* const normalized
    spRegexIndex,    \* sentenceEndPattern.lastIndex
    spLastIndex,     \* let lastIndex
    spSentences,     \* const sentences
    spReturned,      \* the array returned
    spSpans,         \* history: where each pushed sentence lies in normalized
    spDecisions      \* history: what was done at each match

splitVars == <<spPc, spText, spNormalized, spRegexIndex, spLastIndex,
               spSentences, spReturned, spSpans, spDecisions>>

\* the live listener
VARIABLES
    inbox,                \* the Discord messages, by message id
    processedMessageIds,  \* const processedMessageIds
    handlers,             \* the runs of the MessageCreate handler, in order of delivery
    questionsTable,       \* the rows of the table questions, by id
    resolveCalls          \* history: the calls of resolveQueries

listenerVars == <<inbox, processedMessageIds, handlers, questionsTable,
                  resolveCalls>>

\* the URL extractor
VARIABLES
    loomLastIndex,  \* LOOM_URL_REGEX.lastIndex
    urlContent,     \* content of the last call of extractURLs
    allUrls,        \* its allUrls
    nonLoomUrls,    \* what it returned
    urlPieces       \* the number of pieces of the contents of the calls made

urlVars == <<loomLastIndex, urlContent, allUrls, nonLoomUrls, urlPieces>>

\* the state machines of the text functions, of the live listener and of the
\* URL extractor
laterVars == <<guardVars, splitVars, listenerVars, urlVars>>

\* the variables of the other state machines
others == <<textVars, simVars, embVars, concurrentVars, laterVars>>

vars == <<chunkVars, others>>

\* no call of the text normaliser is under way
TextIdle ==
    /\ txtPc = "idle"
    /\ txtInput = <<>>
    /\ txtFirst = <<>>
    /\ txtSecond = <<>>

\* no call of the similarity engine is under way
SimIdle ==
    /\ simPc = "idle"
    /\ simBase = <<>>
    /\ simVectors = <<>>
    /\ simDone = {}
    /\ simSingle = <<>>
    /\ simBatch = [threw |-> FALSE, value |-> <<>>]
    /\ simDot = <<>>

\* no direct call of the provider is under way and no request was sent
EmbeddingsIdle ==
    /\ embPc = "idle"
    /\ embFn = "batch"
    /\ embTexts = <<>>
    /\ embOffset = 0
    /\ embResults = <<>>
    /\ embError = "none"
    /\ requests = <<>>

\* no call of an exported text function is under way
GuardIdle ==
    /\ gPc = "idle"
    /\ gFn = "none"
    /\ gText = JsUndefined
    /\ gLength = {}
    /\ gSuffix = JsUndefined
    /\ gResult = Returns(JsUndefined)

\* no call of splitIntoSentences is under way
SplitIdle ==
    /\ spPc = "idle"
    /\ spText = <<>>
    /\ spNormalized = <<>>
    /\ spRegexIndex = 0
    /\ spLastIndex = 0
    /\ spSentences = <<>>
    /\ spReturned = <<>>
    /\ spSpans = <<>>
    /\ spDecisions = <<>>

\* the live listener is not running
ListenerIdle ==
    /\ inbox = <<>>
    /\ processedMessageIds = {}
    /\ handlers = <<>>
    /\ questionsTable = <<>>
    /\ resolveCalls = <<>>

\* extractURLs has not been called
UrlIdle ==
    /\ loomLastIndex = 0
    /\ urlContent = <<>>
    /\ allUrls = <<>>
    /\ nonLoomUrls = <<>>
    /\ urlPieces = 0

LaterIdle == GuardIdle /\ SplitIdle /\ ListenerIdle /\ UrlIdle

\* no concurrent calls are under way
ConcurrentIdle ==
    /\ callArgs = <<>>
    /\ frames = <<>>
    /\ outcomes = <<>>

\* the arguments of a call: an array of messages, or a value that is not an
\* array (null, undefined, an object)
InitArguments ==
    /\ \/ isArray = TRUE /\ messages \in MessageArrays
       \/ isArray = FALSE /\ messages = <<>>
    /\ options \in OptionObjects

Init ==
    /\ InitArguments
    /\ TextIdle
    /\ SimIdle
    /\ EmbeddingsIdle
    /\ ConcurrentIdle
    /\ LaterIdle
    /\ pc = "start"
    /\ threshold = 0
    /\ minChunkLength = 0
    /\ maxChunkLength = 0
    /\ sentences = <<>>
    /\ embeddings = <<>>
    /\ chunks = <<>>
    /\ currentChunk = Null
    /\ i = 0
    /\ returned = <<>>
    /\ error = "none"
    /\ provider = "none"
    /\ finalized = <<>>

\* line 202: !messages || !Array.isArray(messages) || messages.length === 0
NoMessages(array, msgs) == ~array \/ Len(msgs) = 0

\* (variant: the test of line 237 is missing)
NoSentencesUntested(sents) == FALSE

\* line 237: sentences.length === 0
NoSentences(sents) == Len(sents) = 0

\* lines 202-204 and 237-239: no message, or no sentence: return []
ReturnEmpty ==
    /\ pc = "start"
    /\ \/ NoMessages(isArray, messages)
       \/ NoSentences(PrepareSentences(messages, <<>>))
    /\ pc' = "done"
    /\ returned' = <<>>
    /\ IF NoMessages(isArray, messages)
       THEN UNCHANGED <<threshold, minChunkLength, maxChunkLength>>
       ELSE /\ threshold' = OrDefault(options.threshold, SIMILARITY_THRESHOLD)
            /\ minChunkLength' = OrDefault(options.minChunkLength, MIN_CHUNK_LENGTH)
            /\ maxChunkLength' = OrDefault(options.maxChunkLength, MAX_CHUNK_LENGTH)
    /\ UNCHANGED <<messages, options, sentences, embeddings, chunks,
                   currentChunk, i, error, provider, finalized>>
    /\ UNCHANGED <<isArray, others>>

\* lines 206-246: options, sentences, and the call of the provider
Prepare ==
    /\ pc = "start"
    /\ ~NoMessages(isArray, messages)
    /\ ~NoSentences(PrepareSentences(messages, <<>>))
    /\ threshold' = OrDefault(options.threshold, SIMILARITY_THRESHOLD)
    /\ minChunkLength' = OrDefault(options.minChunkLength, MIN_CHUNK_LENGTH)
    /\ maxChunkLength' = OrDefault(options.maxChunkLength, MAX_CHUNK_LENGTH)
    /\ sentences' = PrepareSentences(messages, <<>>)
    /\ pc' = "await"
    /\ UNCHANGED <<messages, options, embeddings, chunks, currentChunk, i,
                   returned, error, provider, finalized>>
    /\ UNCHANGED <<isArray, others>>

\* lines 247-249: the provider rejects
ProviderRejects ==
    /\ pc = "await"
    /\ provider' = "rejected"
    /\ pc' = "failed"
    /\ error' = "Failed to generate embeddings for semantic chunking"
    /\ UNCHANGED <<messages, options, threshold, minChunkLength,
                   maxChunkLength, sentences, embeddings, chunks,
                   currentChunk, i, returned, finalized>>
    /\ UNCHANGED <<isArray, others>>

\* (variant: only a missing vector is detected)
CountTooSmall(embs, sents) == Len(embs) < Len(sents)

\* the condition of line 251
CountMismatch(embs, sents) == Len(embs) # Len(sents)

\* lines 251-253: the provider resolves to another number of vectors
EmbeddingCountMismatch ==
    /\ pc = "await"
    /\ \E embs \in ProviderResults(Len(sentences)) :
          /\ CountMismatch(embs, sentences)
          /\ embeddings' = embs
    /\ provider' = "resolved"
    /\ pc' = "failed"
    /\ error' = "Embedding count mismatch"
    /\ UNCHANGED <<messages, options, threshold, minChunkLength,
                   maxChunkLength, sentences, chunks, currentChunk, i,
                   returned, finalized>>
    /\ UNCHANGED <<isArray, others>>

\* lines 255-262: the accumulator is seeded with sentence 0
SeedAccumulator ==
    /\ pc = "await"
    /\ \E embs \in ProviderResults(Len(sentences)) :
          /\ ~CountMismatch(embs, sentences)
          /\ embeddings' = embs
          /\ currentChunk' = NewChunk(sentences, embs, 0)
    /\ provider' = "resolved"
    /\ chunks' = <<>>
    /\ i' = 1
    /\ pc' = "walk"
    /\ UNCHANGED <<messages, options, threshold, minChunkLength,
                   maxChunkLength, sentences, returned, error, finalized>>
    /\ UNCHANGED <<isArray, others>>

\* (variant: the sentence is compared with the first sentence)
StepSimilarityToFirst(embs, k) == cosineSimilarityBatch(embs[1], <<embs[k + 1]>>)

\* line 269: cosineSimilarityBatch(prevEmbedding, [currEmbedding])
StepSimilarity(embs, k) == cosineSimilarityBatch(embs[k], <<embs[k + 1]>>)

\* (variant: a similarity equal to the threshold splits)
SimilarStrict(similarity, t) == similarity.num * 100 > t * similarity.den

\* line 272
Similar(similarity, t) == AtLeast(similarity, t)

\* line 269: the similarity engine throws
SimilarityThrows ==
    /\ pc = "walk"
    /\ i < Len(sentences)
    /\ StepSimilarity(embeddings, i).threw
    /\ pc' = "failed"
    /\ error' = "Vector length mismatch"
    /\ UNCHANGED <<messages, options, threshold, minChunkLength,
                   maxChunkLength, sentences, embeddings, chunks,
                   currentChunk, i, returned, provider, finalized>>
    /\ UNCHANGED <<isArray, others>>

\* lines 272-280: sentence i joins the current accumulator
AppendSentence ==
    /\ pc = "walk"
    /\ i < Len(sentences)
    /\ ~StepSimilarity(embeddings, i).threw
    /\ Similar(StepSimilarity(embeddings, i).value[1], threshold)
    /\ currentChunk' = PushSentence(currentChunk, sentences, embeddings, i)
    /\ i' = i + 1
    /\ UNCHANGED <<messages, options, pc, threshold, minChunkLength,
                   maxChunkLength, sentences, embeddings, chunks, returned,
                   error, provider, finalized>>
    /\ UNCHANGED <<isArray, others>>

\* lines 281-295: the accumulator is finalized and sentence i seeds a new one
SplitChunk ==
    /\ pc = "walk"
    /\ i < Len(sentences)
    /\ ~StepSimilarity(embeddings, i).threw
    /\ ~Similar(StepSimilarity(embeddings, i).value[1], threshold)
    /\ LET finalizedChunk ==
               finalizeChunk(currentChunk, minChunkLength, maxChunkLength)
       IN  /\ chunks' = PushFinalized(chunks, finalizedChunk)
           /\ finalized' = Append(finalized, [accumulator |-> currentChunk,
                                              result      |-> finalizedChunk])
    /\ currentChunk' = NewChunk(sentences, embeddings, i)
    /\ i' = i + 1
    /\ UNCHANGED <<messages, options, pc, threshold, minChunkLength,
                   maxChunkLength, sentences, embeddings, returned, error,
                   provider>>
    /\ UNCHANGED <<isArray, others>>

\* lines 298-304: the last accumulator is finalized and chunks is returned
FinalizeLast ==
    /\ pc = "walk"
    /\ ~(i < Len(sentences))
    /\ LET finalizedChunk ==
               finalizeChunk(currentChunk, minChunkLength, maxChunkLength)
       IN  /\ chunks' = PushFinalized(chunks, finalizedChunk)
           /\ returned' = PushFinalized(chunks, finalizedChunk)
           /\ finalized' = Append(finalized, [accumulator |-> currentChunk,
                                              result      |-> finalizedChunk])
    /\ pc' = "done"
    /\ UNCHANGED <<messages, options, threshold, minChunkLength,
                   maxChunkLength, sentences, embeddings, currentChunk, i,
                   error, provider>>
    /\ UNCHANGED <<isArray, others>>

Next ==
    \/ ReturnEmpty
    \/ Prepare
    \/ ProviderRejects
    \/ EmbeddingCountMismatch
    \/ SeedAccumulator
    \/ SimilarityThrows
    \/ AppendSentence
    \/ SplitChunk
    \/ FinalizeLast

Spec == Init /\ [][Next]_vars

\* ------------------------------------------------------------------------
\* Vocabulary of the properties
\* ------------------------------------------------------------------------

\* the accumulators finalized so far, in order
Accumulators == 1..Len(finalized)

\* accumulator j was emitted: finalizeChunk returned a chunk for it
Emitted(j) == finalized[j].result # Null

\* position in chunks of the chunk emitted for accumulator j
Rank(j) == Cardinality({h \in 1..j : Emitted(h)})

\* the sentence of index s (message_index) is the m-th sentence of accumulator j
HeldAt(s, j, m) ==
    /\ m \in 1..Len(finalized[j].accumulator.sentences)
    /\ finalized[j].accumulator.sentences[m].message_index = s

Holds(s, j) ==
    \E m \in 1..Len(finalized[j].accumulator.sentences) : HeldAt(s, j, m)

\* the texts of the first m sentences of accumulator j, joined by spaces
Prefix(j, m) ==
    Join([k \in 1..m |-> finalized[j].accumulator.sentences[k].text])

\* the joined text of accumulator j
Joined(j) == Prefix(j, Len(finalized[j].accumulator.sentences))

\* the text occurs in content, ending at the 1-based position end
OccursEndingAt(content, text, end) ==
    /\ end <= Len(content)
    /\ SubSeq(content, end - Len(text) + 1, end) = text

\* the sentence of index s stands, at its place, in the content of the chunk
\* emitted for accumulator j
AppearsIn(s, j, chs) ==
    /\ Emitted(j)
    /\ \E m \in 1..Len(finalized[j].accumulator.sentences) :
          /\ HeldAt(s, j, m)
          /\ OccursEndingAt(chs[Rank(j)].content,
                            finalized[j].accumulator.sentences[m].text,
                            Len(Prefix(j, m)))

SentenceIndices == 0..(Len(sentences) - 1)

\* ------------------------------------------------------------------------
\* C1
\* ------------------------------------------------------------------------

\* C1 as stated: every sentence appears in the content of exactly one
\* returned chunk, or in none only when its accumulator was discarded for
\* being below minChunkLength.
C1_CoverageAsStated ==
    pc = "done" =>
      \A s \in SentenceIndices :
         LET in == {j \in Accumulators : AppearsIn(s, j, returned)}
         IN  \/ Cardinality(in) = 1
             \/ /\ in = {}
                /\ \E j \in Accumulators :
                      /\ Holds(s, j)
                      /\ ~Emitted(j)
                      /\ Len(Joined(j)) < minChunkLength

\* C1 (amended): every sentence is held by exactly one accumulator and
\* appears in no chunk but that accumulator's; it appears there when the
\* accumulator is emitted and the sentence ends within the first
\* maxChunkLength characters of the joined content (or nothing was cut); an
\* accumulator is emitted unless its joined content is below minChunkLength.
C1_Coverage ==
    pc = "done" =>
      \A s \in SentenceIndices :
         /\ Cardinality({j \in Accumulators : Holds(s, j)}) = 1
         /\ \A j \in Accumulators :
               /\ AppearsIn(s, j, returned) => Holds(s, j)
               /\ Holds(s, j) =>
                    /\ ~Emitted(j) <=> Len(Joined(j)) < minChunkLength
                    /\ \A m \in 1..Len(finalized[j].accumulator.sentences) :
                          ( /\ HeldAt(s, j, m)
                            /\ Emitted(j)
                            /\ \/ Len(Joined(j)) <= maxChunkLength
                               \/ Len(Prefix(j, m)) <= maxChunkLength )
                          => AppearsIn(s, j, returned)

\* a returned chunk was cut and a sentence of its accumulator is not in it,
\* while another accumulator was discarded
C1_Witness ==
    /\ pc = "done"
    /\ \E j \in Accumulators :
          /\ Emitted(j)
          /\ Len(Joined(j)) > maxChunkLength
          /\ \E s \in SentenceIndices :
                Holds(s, j) /\ ~AppearsIn(s, j, returned)
    /\ \E j \in Accumulators : ~Emitted(j)

\* ------------------------------------------------------------------------
\* C2
\* ------------------------------------------------------------------------

\* dot / (|a| |b|) >= t / 100, and 0 >= t / 100 when a magnitude is 0
CosineAtLeast(a, b, t) ==
    IF magnitude(a) = 0 \/ magnitude(b) = 0 THEN 0 >= t
    ELSE dotProduct(a, b) * 100 >= t * magnitude(a) * magnitude(b)

\* C2: a step of the walk that does not throw appends sentence i to the
\* accumulator holding sentence i-1 exactly when the cosine similarity of
\* embedding[i-1] and embedding[i] is >= threshold; otherwise it finalizes the
\* accumulator and seeds a new one with sentence i.  Nothing but the two
\* embeddings and the threshold enters the decision.
C2_BoundaryCriterion ==
    [][ (pc = "walk" /\ i < Len(sentences) /\ pc' # "failed") =>
          /\ Len(embeddings[i]) = Len(embeddings[i + 1])
          /\ IF CosineAtLeast(embeddings[i], embeddings[i + 1], threshold)
             THEN /\ currentChunk'.sentences =
                        Append(currentChunk.sentences, sentences[i + 1])
                  /\ finalized' = finalized
                  /\ chunks' = chunks
             ELSE /\ Len(finalized') = Len(finalized) + 1
                  /\ finalized'[Len(finalized')].accumulator = currentChunk
                  /\ currentChunk'.sentences = <<sentences[i + 1]>> ]_vars

\* after an earlier split, the walk kept a sentence whose similarity to its
\* predecessor equals the threshold
C2_Witness ==
    /\ pc = "walk"
    /\ i >= 3
    /\ Len(currentChunk.sentences) >= 2
    /\ Len(finalized) >= 1
    /\ Len(embeddings[i]) = Len(embeddings[i - 1])
    /\ magnitude(embeddings[i]) # 0 /\ magnitude(embeddings[i - 1]) # 0
    /\ dotProduct(embeddings[i - 1], embeddings[i]) * 100
         = threshold * magnitude(embeddings[i - 1]) * magnitude(embeddings[i])

\* ------------------------------------------------------------------------
\* C3
\* ------------------------------------------------------------------------

\* some sentence of accumulator j comes from a message with isTeam false
HasClientSentence(j) ==
    \E m \in 1..Len(finalized[j].accumulator.sentences) :
       ~finalized[j].accumulator.sentences[m].original_message.isTeam

\* C3: every returned chunk whose accumulator held a sentence of a message
\* with isTeam false has author_role "client".
C3_ClientDominance ==
    pc = "done" =>
      \A j \in Accumulators :
         (Emitted(j) /\ HasClientSentence(j))
           => returned[Rank(j)].author_role = "client"

\* a returned chunk seeded by a team sentence with a client sentence after it
C3_Witness ==
    /\ pc = "done"
    /\ \E j \in Accumulators :
          /\ Emitted(j)
          /\ Len(finalized[j].accumulator.sentences) >= 2
          /\ finalized[j].accumulator.sentences[1].original_message.isTeam
          /\ HasClientSentence(j)
          /\ returned[Rank(j)].author_role = "client"

\* ------------------------------------------------------------------------
\* C4
\* ------------------------------------------------------------------------

\* the walk has compared the embeddings k and k+1 (1-based)
Compared(k) == pc \in {"walk", "done"} /\ k < i

\* C4: when the provider rejects, and when two consecutive embeddings of a
\* walk differ in length, semanticChunk throws and resolves to nothing: the
\* walk never gets past such a pair, whatever was finalized before.
C4_AllOrNothing ==
    /\ provider = "rejected" => pc = "failed"
    /\ pc = "failed" => returned = <<>>
    /\ \A k \in 1..(Len(embeddings) - 1) :
          (Len(embeddings[k]) # Len(embeddings[k + 1])
             /\ Len(embeddings) = Len(sentences))
          => ~Compared(k)

\* the similarity engine threw after a chunk had been pushed
C4_Witness ==
    /\ pc = "failed"
    /\ error = "Vector length mismatch"
    /\ Len(chunks) >= 1
    /\ returned = <<>>

\* ------------------------------------------------------------------------
\* C5
\* ------------------------------------------------------------------------

\* C5: when the provider resolves to a number of vectors other than the
\* number of sentences, semanticChunk throws the embedding count mismatch
\* before the walk starts: no accumulator, no chunk, nothing returned.
C5_CountMismatch ==
    (provider = "resolved" /\ Len(embeddings) # Len(sentences)) =>
       /\ pc = "failed"
       /\ error = "Embedding count mismatch"
       /\ currentChunk = Null
       /\ i = 0
       /\ finalized = <<>>
       /\ chunks = <<>>
       /\ returned = <<>>

\* three vectors came back for four sentences
C5_Witness ==
    /\ provider = "resolved"
    /\ Len(sentences) = 4
    /\ Len(embeddings) = 3
    /\ pc = "failed"

\* one vector too many came back
C5_WitnessMore ==
    /\ provider = "resolved"
    /\ Len(embeddings) = Len(sentences) + 1
    /\ pc = "failed"

\* ------------------------------------------------------------------------
\* C6
\* ------------------------------------------------------------------------

\* the value of an option that was supplied, else the default
Supplied(option, default) ==
    IF option = {} THEN default ELSE CHOOSE v \in option : TRUE

\* C6: the threshold, minChunkLength and maxChunkLength in use are the ones
\* the caller supplied, and the defaults only for an option not supplied.
C6_OptionsHonoured ==
    (pc \notin {"idle", "start"} /\ Len(messages) # 0) =>
       /\ threshold = Supplied(options.threshold, SIMILARITY_THRESHOLD)
       /\ minChunkLength = Supplied(options.minChunkLength, MIN_CHUNK_LENGTH)
       /\ maxChunkLength = Supplied(options.maxChunkLength, MAX_CHUNK_LENGTH)

\* ------------------------------------------------------------------------
\* C7
\* ------------------------------------------------------------------------

\* the accumulators whose joined content reaches minChunkLength
LongEnough == {j \in Accumulators : Len(Joined(j)) >= minChunkLength}

\* C7: an accumulator is emitted exactly when its joined content, before any
\* truncation, has at least minChunkLength characters; chunks holds one chunk
\* per such accumulator, made of that accumulator's sentences only, so every
\* chunk has original_length >= minChunkLength.
C7_MinimumLength ==
    /\ \A j \in Accumulators : Emitted(j) <=> j \in LongEnough
    /\ Len(chunks) = Cardinality(LongEnough)
    /\ \A j \in LongEnough :
          /\ chunks[Rank(j)].metadata.original_length = Len(Joined(j))
          /\ chunks[Rank(j)].metadata.sentence_count
               = Len(finalized[j].accumulator.sentences)
    /\ \A c \in 1..Len(chunks) :
          chunks[c].metadata.original_length >= minChunkLength

\* a short accumulator was dropped between two emitted ones, one of which has
\* exactly minChunkLength characters
C7_Witness ==
    \E j \in Accumulators :
       /\ ~Emitted(j)
       /\ \E h \in 1..(j - 1) : Emitted(h)
       /\ \E h \in (j + 1)..Len(finalized) :
             Emitted(h) /\ Len(Joined(h)) = minChunkLength

\* ------------------------------------------------------------------------
\* C8
\* ------------------------------------------------------------------------

C8_WitnessWhole ==
    \E j \in Accumulators :
       /\ Emitted(j)
       /\ Len(finalized[j].accumulator.sentences) >= 2
       /\ Len(Joined(j)) <= maxChunkLength
       /\ chunks[Rank(j)].content = Joined(j)

\* ------------------------------------------------------------------------
\* C9
\* ------------------------------------------------------------------------

\* C9: the message_timestamp of an emitted chunk, and the startTimestamp of
\* the open accumulator at every step, is the timestamp of the message that
\* owns the accumulator's first sentence.
C9_ChunkTimestamp ==
    /\ \A j \in Accumulators :
          Emitted(j) =>
            chunks[Rank(j)].message_timestamp
              = finalized[j].accumulator.sentences[1].original_message.timestamp
    /\ pc = "walk" =>
          currentChunk.startTimestamp
            = currentChunk.sentences[1].original_message.timestamp

\* a returned chunk, not the first accumulator, holds sentences of two
\* messages
C9_Witness ==
    /\ pc = "done"
    /\ \E j \in Accumulators :
          /\ j >= 2
          /\ Emitted(j)
          /\ \E m \in 2..Len(finalized[j].accumulator.sentences) :
                finalized[j].accumulator.sentences[m].message_timestamp
                  # finalized[j].accumulator.sentences[1].message_timestamp
          /\ returned[Rank(j)].message_timestamp
               = finalized[j].accumulator.sentences[1].message_timestamp

\* ------------------------------------------------------------------------
\* C10
\* ------------------------------------------------------------------------

\* the provider gave every sentence the same vector
AllIdentical ==
    /\ provider = "resolved"
    /\ Len(embeddings) = Len(sentences)
    /\ \A k \in 1..Len(embeddings) : embeddings[k] = embeddings[1]

\* C10 as stated: with identical embeddings semanticChunk returns exactly
\* one chunk, covering all the sentences, for any threshold.
C10_OneChunkAsStated ==
    (pc = "done" /\ Len(sentences) > 0 /\ AllIdentical) =>
       /\ Len(returned) = 1
       /\ returned[1].metadata.sentence_count = Len(sentences)

\* C10 (amended): with identical embeddings whose similarity to themselves
\* (1 for a vector that is not zero, 0 for the zero vector) is >= threshold,
\* all the sentences end in one accumulator; it is returned as the only
\* chunk when its joined content has at least minChunkLength characters, and
\* nothing is returned otherwise.
C10_OneAccumulator ==
    ( /\ pc = "done"
      /\ Len(sentences) > 0
      /\ AllIdentical
      /\ CosineAtLeast(embeddings[1], embeddings[1], threshold) ) =>
       /\ Len(finalized) = 1
       /\ Len(finalized[1].accumulator.sentences) = Len(sentences)
       /\ IF Len(Joined(1)) >= minChunkLength
          THEN /\ Len(returned) = 1
               /\ returned[1].metadata.sentence_count = Len(sentences)
          ELSE returned = <<>>

\* four sentences with the same vector and a threshold of 1 gave one chunk
C10_Witness ==
    /\ pc = "done"
    /\ Len(sentences) = 4
    /\ AllIdentical
    /\ threshold = 100
    /\ Len(returned) = 1
    /\ returned[1].metadata.sentence_count = 4

\* the zero vector everywhere, kept together by a negative threshold
C10_WitnessZero ==
    /\ pc = "done"
    /\ Len(sentences) >= 2
    /\ AllIdentical
    /\ magnitude(embeddings[1]) = 0
    /\ threshold < 0
    /\ Len(finalized) = 1

\* ------------------------------------------------------------------------
\* C11
\* ------------------------------------------------------------------------

\* no message, or only messages whose content normalizes to ''
NothingToChunk ==
    \/ ~isArray
    \/ \A k \in 1..Len(messages) : normalizeText(messages[k].content) = <<>>

\* C11: when messages is empty or not an array, or every message normalizes
\* to the empty string, semanticChunk returns [] without calling the
\* embedding provider and without throwing.
C11_EmptyInput ==
    (pc \notin {"idle", "start"} /\ NothingToChunk) =>
       /\ pc = "done"
       /\ returned = <<>>
       /\ provider = "none"
       /\ error = "none"
       /\ sentences = <<>>

\* two messages of whitespace gave []
C11_Witness ==
    /\ pc = "done"
    /\ isArray
    /\ Len(messages) = 2
    /\ NothingToChunk
    /\ returned = <<>>

\* a value that is not an array gave []
C11_WitnessNotArray ==
    /\ pc = "done"
    /\ ~isArray
    /\ returned = <<>>

\* ------------------------------------------------------------------------
\* The text normaliser called on its own
\* ------------------------------------------------------------------------

\* longest text passed to the normaliser
MaxTextLen == 5

\* letters, space, tab and newline
TextAlphabet == {"a", "b", " ", "\t", "\n"}

\* the texts of at most MaxTextLen characters
Texts == UNION { [1..n -> TextAlphabet] : n \in 0..MaxTextLen }

\* no call of semanticChunk is under way
ChunkIdle ==
    /\ messages = <<>>
    /\ isArray = TRUE
    /\ options = [threshold |-> {}, minChunkLength |-> {}, maxChunkLength |-> {}]
    /\ pc = "idle"
    /\ threshold = 0
    /\ minChunkLength = 0
    /\ maxChunkLength = 0
    /\ sentences = <<>>
    /\ embeddings = <<>>
    /\ chunks = <<>>
    /\ currentChunk = Null
    /\ i = 0
    /\ returned = <<>>
    /\ error = "none"
    /\ provider = "none"
    /\ finalized = <<>>

InitText ==
    /\ ChunkIdle
    /\ SimIdle
    /\ EmbeddingsIdle
    /\ ConcurrentIdle
    /\ LaterIdle
    /\ txtPc = "start"
    /\ txtInput \in Texts
    /\ txtFirst = <<>>
    /\ txtSecond = <<>>

\* normalizeText(text)
NormalizeOnce ==
    /\ txtPc = "start"
    /\ txtFirst' = normalizeText(txtInput)
    /\ txtPc' = "once"
    /\ UNCHANGED <<txtInput, txtSecond, chunkVars, simVars, embVars,
                   concurrentVars, laterVars>>

\* normalizeText applied to its own result
NormalizeAgain ==
    /\ txtPc = "once"
    /\ txtSecond' = normalizeText(txtFirst)
    /\ txtPc' = "twice"
    /\ UNCHANGED <<txtInput, txtFirst, chunkVars, simVars, embVars,
                   concurrentVars, laterVars>>

NextText ==
    \/ NormalizeOnce
    \/ NormalizeAgain

SpecText == InitText /\ [][NextText]_vars

\* ------------------------------------------------------------------------
\* C19
\* ------------------------------------------------------------------------

\* C19: normalizeText(normalizeText(x)) = normalizeText(x).
C19_Idempotent == txtPc = "twice" => txtSecond = txtFirst

\* a text with whitespace runs inside and at both ends was normalized twice
C19_Witness ==
    /\ txtPc = "twice"
    /\ Len(txtInput) = 5
    /\ txtInput[1] \in Whitespace
    /\ txtInput[5] \in Whitespace
    /\ Len(txtFirst) = 3
    /\ txtSecond = txtFirst

\* ------------------------------------------------------------------------
\* C20
\* ------------------------------------------------------------------------

\* s holds the character c, then n newlines, then the character d, from the
\* 1-based position p
RunAt(s, p, n, c, d) ==
    /\ p >= 1 /\ p + n + 1 <= Len(s)
    /\ s[p] = c
    /\ \A k \in (p + 1)..(p + n) : s[k] = "\n"
    /\ s[p + n + 1] = d

NotWhitespace == TextAlphabet \ Whitespace

\* C20: a run of three or more newlines between two characters that are not
\* whitespace is a run of exactly two newlines in the result of
\* normalizeText.
C20_NewlineRuns ==
    txtPc # "start" =>
      \A c \in NotWhitespace, d \in NotWhitespace :
        \A p \in 1..Len(txtInput), n \in 3..Len(txtInput) :
           RunAt(txtInput, p, n, c, d)
             => \E q \in 1..Len(txtFirst) : RunAt(txtFirst, q, 2, c, d)

\* ------------------------------------------------------------------------
\* The similarity engine called on its own
\* ------------------------------------------------------------------------

\* largest number of vectors passed to cosineSimilarityBatch
MaxBatch == 2

\* vectors of length 0, 1 and 2, of integral magnitude
SimVectorSet ==
    { <<>>, <<0>>, <<1>>, <<-1>>, <<0, 0>>, <<1, 0>>, <<0, 1>>, <<3, 4>>,
      <<-3, -4>> }

InitSimilarity ==
    /\ ChunkIdle
    /\ TextIdle
    /\ EmbeddingsIdle
    /\ ConcurrentIdle
    /\ LaterIdle
    /\ simPc = "run"
    /\ simBase \in SimVectorSet
    /\ simVectors \in UNION { [1..n -> SimVectorSet] : n \in 0..MaxBatch }
    /\ simDone = {}
    /\ simSingle = <<>>
    /\ simBatch = [threw |-> FALSE, value |-> <<>>]
    /\ simDot = <<>>

\* cosineSimilarity(simBase, v) for every v of simVectors, in order
CallCosineSimilarity ==
    /\ simPc = "run"
    /\ "single" \notin simDone
    /\ simSingle' = [k \in 1..Len(simVectors) |->
                        cosineSimilarity(simBase, simVectors[k])]
    /\ simDone' = simDone \cup {"single"}
    /\ UNCHANGED <<simPc, simBase, simVectors, simBatch, simDot>>
    /\ UNCHANGED <<chunkVars, textVars, embVars, concurrentVars, laterVars>>

\* cosineSimilarityBatch(simBase, simVectors)
CallCosineSimilarityBatch ==
    /\ simPc = "run"
    /\ "batch" \notin simDone
    /\ simBatch' = cosineSimilarityBatch(simBase, simVectors)
    /\ simDone' = simDone \cup {"batch"}
    /\ UNCHANGED <<simPc, simBase, simVectors, simSingle, simDot>>
    /\ UNCHANGED <<chunkVars, textVars, embVars, concurrentVars, laterVars>>

\* dotProduct(simBase, v) for every v of simVectors
CallDotProduct ==
    /\ simPc = "run"
    /\ "dot" \notin simDone
    /\ simDot' = [k \in 1..Len(simVectors) |->
                     dotProductCall(simBase, simVectors[k])]
    /\ simDone' = simDone \cup {"dot"}
    /\ UNCHANGED <<simPc, simBase, simVectors, simSingle, simBatch>>
    /\ UNCHANGED <<chunkVars, textVars, embVars, concurrentVars, laterVars>>

NextSimilarity ==
    \/ CallCosineSimilarity
    \/ CallCosineSimilarityBatch
    \/ CallDotProduct

SpecSimilarity == InitSimilarity /\ [][NextSimilarity]_vars

\* ------------------------------------------------------------------------
\* C16
\* ------------------------------------------------------------------------

\* C16: cosineSimilarity returns no number, and throws the length mismatch,
\* when the lengths differ; it returns no number when a vector is empty, and
\* throws the empty-vector error when both are; dotProduct throws the length
\* mismatch when the lengths differ.
C16_SimilarityErrors ==
    /\ "single" \in simDone =>
         \A k \in 1..Len(simVectors) :
            /\ Len(simBase) # Len(simVectors[k]) =>
                 /\ simSingle[k].threw
                 /\ simSingle[k].error = "Vector length mismatch"
            /\ (Len(simBase) = 0 \/ Len(simVectors[k]) = 0) =>
                 simSingle[k].threw
            /\ (Len(simBase) = 0 /\ Len(simVectors[k]) = 0) =>
                 simSingle[k].error = "Vectors must not be empty"
    /\ "dot" \in simDone =>
         \A k \in 1..Len(simVectors) :
            Len(simBase) # Len(simVectors[k]) =>
               /\ simDot[k].threw
               /\ simDot[k].error = "Vector length mismatch"

\* both errors of cosineSimilarity and the error of dotProduct were thrown
C16_Witness ==
    /\ simDone = {"single", "batch", "dot"}
    /\ Len(simVectors) = 2
    /\ simSingle[1].error = "Vectors must not be empty"
    /\ simSingle[2].error = "Vector length mismatch"
    /\ simDot[2].threw

\* ------------------------------------------------------------------------
\* C17
\* ------------------------------------------------------------------------

\* C17: cosineSimilarityBatch(base, vectors) returns, index by index, what
\* cosineSimilarity(base, v) returns when every single call succeeds, and
\* throws when some single call throws.
C17_BatchLikeSingle ==
    {"single", "batch"} \subseteq simDone =>
       IF \E k \in 1..Len(simVectors) : simSingle[k].threw
       THEN simBatch.threw
       ELSE /\ ~simBatch.threw
            /\ Len(simBatch.value) = Len(simVectors)
            /\ \A k \in 1..Len(simVectors) :
                  simBatch.value[k] = simSingle[k].value

\* ------------------------------------------------------------------------
\* C18
\* ------------------------------------------------------------------------

IsZeroVector(v) == \A k \in 1..Len(v) : v[k] = 0

\* exactly 0
Zero == [num |-> 0, den |-> 1]

\* C18: for vectors of one length, not empty, one of which is all zero,
\* cosineSimilarity returns exactly 0 and does not throw, and so does
\* cosineSimilarityBatch at that index when all its vectors have that length.
C18_ZeroVector ==
    \A k \in 1..Len(simVectors) :
       ( /\ Len(simBase) = Len(simVectors[k])
         /\ Len(simBase) > 0
         /\ IsZeroVector(simBase) \/ IsZeroVector(simVectors[k]) ) =>
          /\ "single" \in simDone =>
               ~simSingle[k].threw /\ simSingle[k].value = Zero
          /\ ( /\ "batch" \in simDone
               /\ \A h \in 1..Len(simVectors) :
                     Len(simVectors[h]) = Len(simBase) ) =>
               ~simBatch.threw /\ simBatch.value[k] = Zero

\* the zero vector against itself and against another vector, both calls
\* made
C18_Witness ==
    /\ {"single", "batch"} \subseteq simDone
    /\ simBase = <<0, 0>>
    /\ simVectors = << <<0, 0>>, <<3, 4>> >>
    /\ simBatch.value = <<Zero, Zero>>

\* a vector against the zero vector
C18_WitnessSecond ==
    /\ {"single", "batch"} \subseteq simDone
    /\ simBase = <<3, 4>>
    /\ simVectors = << <<0, 0>> >>
    /\ simSingle[1].value = Zero

\* ------------------------------------------------------------------------
\* The embedding provider called on its own
\* ------------------------------------------------------------------------

\* largest number of texts passed to the provider
MaxTexts == 4

\* texts: plain, with surrounding whitespace, blank
ProviderTexts == { <<"a">>, <<" ", "b">>, <<" ">> }

\* the current batch: all the texts for generateEmbeddingsBatch, the slice of
\* line 150 for generateEmbeddingsBatched
CurrentBatch(fn, texts, offset) ==
    IF fn = "batch" THEN texts
    ELSE Slice(texts, offset, offset + MAX_BATCH_SIZE)

InitEmbeddings ==
    /\ ChunkIdle
    /\ TextIdle
    /\ SimIdle
    /\ ConcurrentIdle
    /\ LaterIdle
    /\ embPc = "start"
    /\ embFn \in {"batch", "batched"}
    /\ embTexts \in UNION { [1..n -> ProviderTexts] : n \in 0..MaxTexts }
    /\ embOffset = 0
    /\ embResults = <<>>
    /\ embError = "none"
    /\ requests = <<>>

\* lines 81-97, and 142-144 with the first batch: the call throws before any
\* request
EmbeddingsCallRejected ==
    /\ embPc = "start"
    /\ BatchPrecheck(CurrentBatch(embFn, embTexts, 0)) # "none"
    /\ embPc' = "rejected"
    /\ embError' = BatchPrecheck(CurrentBatch(embFn, embTexts, 0))
    /\ UNCHANGED <<embFn, embTexts, embOffset, embResults, requests>>
    /\ UNCHANGED <<chunkVars, textVars, simVars, concurrentVars, laterVars>>

\* lines 99-103: the request of the (first) batch is sent
EmbeddingsRequest ==
    /\ embPc = "start"
    /\ BatchPrecheck(CurrentBatch(embFn, embTexts, 0)) = "none"
    /\ requests' = IssueRequest(requests,
                                ValidTexts(CurrentBatch(embFn, embTexts, 0)))
    /\ embPc' = "await"
    /\ UNCHANGED <<embFn, embTexts, embOffset, embResults, embError>>
    /\ UNCHANGED <<chunkVars, textVars, simVars, concurrentVars, laterVars>>

\* lines 120-131: the API call fails
EmbeddingsApiFails ==
    /\ embPc = "await"
    /\ embPc' = "rejected"
    /\ embError' = "OpenAI error"
    /\ UNCHANGED <<embFn, embTexts, embOffset, embResults, requests>>
    /\ UNCHANGED <<chunkVars, textVars, simVars, concurrentVars, laterVars>>

\* lines 105-119 and 153-163: the API responds; the data is verified, and
\* returned or pushed to the results
EmbeddingsApiResponds ==
    /\ embPc = "await"
    /\ \E data \in ProviderResults(Len(requests[Len(requests)])) :
          LET verdict == VerifyResponse(data, requests[Len(requests)])
          IN  IF verdict # "none"
              THEN /\ embPc' = "rejected"
                   /\ embError' = verdict
                   /\ UNCHANGED embResults
              ELSE /\ embResults' = embResults \o data
                   /\ embPc' = IF /\ embFn = "batched"
                                  /\ embOffset + MAX_BATCH_SIZE < Len(embTexts)
                               THEN "delay" ELSE "resolved"
                   /\ UNCHANGED embError
    /\ UNCHANGED <<embFn, embTexts, embOffset, requests>>
    /\ UNCHANGED <<chunkVars, textVars, simVars, concurrentVars, laterVars>>

\* lines 149-153 after the delay of line 162: the next batch throws before
\* its request
EmbeddingsNextBatchRejected ==
    /\ embPc = "delay"
    /\ BatchPrecheck(CurrentBatch(embFn, embTexts,
                                  embOffset + MAX_BATCH_SIZE)) # "none"
    /\ embOffset' = embOffset + MAX_BATCH_SIZE
    /\ embPc' = "rejected"
    /\ embError' = BatchPrecheck(CurrentBatch(embFn, embTexts,
                                              embOffset + MAX_BATCH_SIZE))
    /\ UNCHANGED <<embFn, embTexts, embResults, requests>>
    /\ UNCHANGED <<chunkVars, textVars, simVars, concurrentVars, laterVars>>

\* lines 149-153 after the delay of line 162: the request of the next batch
\* is sent
EmbeddingsNextBatchRequest ==
    /\ embPc = "delay"
    /\ BatchPrecheck(CurrentBatch(embFn, embTexts,
                                  embOffset + MAX_BATCH_SIZE)) = "none"
    /\ embOffset' = embOffset + MAX_BATCH_SIZE
    /\ requests' = IssueRequest(requests,
                      ValidTexts(CurrentBatch(embFn, embTexts,
                                              embOffset + MAX_BATCH_SIZE)))
    /\ embPc' = "await"
    /\ UNCHANGED <<embFn, embTexts, embResults, embError>>
    /\ UNCHANGED <<chunkVars, textVars, simVars, concurrentVars, laterVars>>

NextEmbeddings ==
    \/ EmbeddingsCallRejected
    \/ EmbeddingsRequest
    \/ EmbeddingsApiFails
    \/ EmbeddingsApiResponds
    \/ EmbeddingsNextBatchRejected
    \/ EmbeddingsNextBatchRequest

SpecEmbeddings == InitEmbeddings /\ [][NextEmbeddings]_vars

\* ------------------------------------------------------------------------
\* C14
\* ------------------------------------------------------------------------

\* the inputs of all the requests, in the order sent
RECURSIVE Flatten(_)
Flatten(seqs) == IF seqs = <<>> THEN <<>> ELSE Head(seqs) \o Flatten(Tail(seqs))

\* C14: when generateEmbeddingsBatch or generateEmbeddingsBatched succeeds,
\* the result has one vector for each text, and result[i] is the vector the
\* API gave for texts[i]: the inputs sent are the texts, in order.
C14_ProviderContract ==
    embPc = "resolved" =>
       /\ Len(embResults) = Len(embTexts)
       /\ Len(Flatten(requests)) = Len(embTexts)
       /\ \A k \in 1..Len(embTexts) :
             Flatten(requests)[k] = Trim(embTexts[k])

\* ------------------------------------------------------------------------
\* semanticChunk with generateEmbeddingsBatch of src/unnamed/part_002 as the
\* provider of line 165.  This provider verifies the number and the
\* dimensions of the vectors itself, so that lines 251-253 and the throw of
\* the similarity engine are never reached and EmbeddingCountMismatch and
\* SimilarityThrows have no step here.
\* ------------------------------------------------------------------------

\* line 241
SentenceTexts(sents) == [k \in 1..Len(sents) |-> sents[k].text]

\* lines 206-235: the options and the sentences
PrepareLocals ==
    /\ threshold' = OrDefault(options.threshold, SIMILARITY_THRESHOLD)
    /\ minChunkLength' = OrDefault(options.minChunkLength, MIN_CHUNK_LENGTH)
    /\ maxChunkLength' = OrDefault(options.maxChunkLength, MAX_CHUNK_LENGTH)
    /\ sentences' = PrepareSentences(messages, <<>>)

\* lines 206-246, and 81-103 of the provider: the request with the sentence
\* texts is sent
OpenAIRequest ==
    /\ pc = "start"
    /\ ~NoMessages(isArray, messages)
    /\ ~NoSentences(PrepareSentences(messages, <<>>))
    /\ BatchPrecheck(SentenceTexts(PrepareSentences(messages, <<>>))) = "none"
    /\ PrepareLocals
    /\ requests' = IssueRequest(requests,
           ValidTexts(SentenceTexts(PrepareSentences(messages, <<>>))))
    /\ pc' = "await"
    /\ UNCHANGED <<messages, options, embeddings, chunks, currentChunk, i,
                   returned, error, provider, finalized, isArray>>
    /\ UNCHANGED <<embPc, embFn, embTexts, embOffset, embResults, embError>>
    /\ UNCHANGED <<textVars, simVars, concurrentVars, laterVars>>

\* lines 206-249, and 81-97 of the provider: the provider throws before any
\* request
OpenAIBatchRejected ==
    /\ pc = "start"
    /\ ~NoMessages(isArray, messages)
    /\ ~NoSentences(PrepareSentences(messages, <<>>))
    /\ BatchPrecheck(SentenceTexts(PrepareSentences(messages, <<>>))) # "none"
    /\ PrepareLocals
    /\ provider' = "rejected"
    /\ pc' = "failed"
    /\ error' = "Failed to generate embeddings for semantic chunking"
    /\ UNCHANGED <<messages, options, embeddings, chunks, currentChunk, i,
                   returned, finalized, isArray>>
    /\ UNCHANGED others

\* lines 105-119 of the provider, then 247-262: the API responds; the
\* provider verifies the data and throws or returns it
OpenAIResponds ==
    /\ pc = "await"
    /\ \E data \in ProviderResults(Len(requests[Len(requests)])) :
          IF VerifyResponse(data, requests[Len(requests)]) # "none"
          THEN /\ provider' = "rejected"
               /\ pc' = "failed"
               /\ error' = "Failed to generate embeddings for semantic chunking"
               /\ UNCHANGED <<embeddings, chunks, currentChunk, i>>
          ELSE /\ provider' = "resolved"
               /\ embeddings' = data
               /\ IF CountMismatch(data, sentences)
                  THEN /\ pc' = "failed"
                       /\ error' = "Embedding count mismatch"
                       /\ UNCHANGED <<chunks, currentChunk, i>>
                  ELSE /\ currentChunk' = NewChunk(sentences, data, 0)
                       /\ chunks' = <<>>
                       /\ i' = 1
                       /\ pc' = "walk"
                       /\ UNCHANGED error
    /\ UNCHANGED <<messages, options, threshold, minChunkLength,
                   maxChunkLength, sentences, returned, finalized>>
    /\ UNCHANGED <<isArray, others>>

NextOpenAI ==
    \/ ReturnEmpty
    \/ OpenAIRequest
    \/ OpenAIBatchRejected
    \/ ProviderRejects
    \/ OpenAIResponds
    \/ AppendSentence
    \/ SplitChunk
    \/ FinalizeLast

SpecOpenAI == Init /\ [][NextOpenAI]_vars

\* ------------------------------------------------------------------------
\* C12, C13
\* ------------------------------------------------------------------------

\* the call has produced its sentences, and there is at least one
HasSentences == pc \in {"await", "walk", "done", "failed"} /\ Len(sentences) > 0

\* exactly one request was sent, with all the sentence texts in order
OneBatchedRequest ==
    /\ Len(requests) = 1
    /\ requests[1] = SentenceTexts(sentences)

C12_WitnessOversized ==
    /\ pc = "failed"
    /\ Len(sentences) > MAX_BATCH_SIZE
    /\ requests = <<>>

\* C13: a call with more than MAX_BATCH_SIZE sentences does not fail unless
\* a request was sent (and the API failed); it gets one embedding for each
\* sentence from several requests, and returns.
C13_OversizedInput ==
    (HasSentences /\ Len(sentences) > MAX_BATCH_SIZE) =>
       /\ pc = "failed" => Len(requests) > 0
       /\ pc \in {"walk", "done"} =>
             /\ Len(requests) >= 2
             /\ Len(embeddings) = Len(sentences)

\* ------------------------------------------------------------------------
\* Two calls of semanticChunk in one event loop.  The code of a call between
\* two awaits runs to completion: a call takes one step from its start to
\* the await of line 246 (or to a return before it), and one step from the
\* settling of the awaited promise to its return or throw.
\* ------------------------------------------------------------------------

Calls == {1, 2}

\* largest number of messages passed to each of the concurrent calls
MaxConcurrentMsgs == 1

ConcurrentMessageArrays ==
    { m \in MessageArrays : Len(m) <= MaxConcurrentMsgs }

ConcurrentOptions ==
    { [threshold |-> {}, minChunkLength |-> {}, maxChunkLength |-> {}],
      [threshold |-> {60}, minChunkLength |-> {4}, maxChunkLength |-> {5}] }

\* what the awaited call of line 246 settles to for n texts: a rejection, one
\* vector per text, or one vector too many
ConcurrentOutcomes(n) ==
    { [rejected |-> TRUE, embeddings |-> <<>>] }
    \cup { [rejected |-> FALSE, embeddings |-> e] :
             e \in [1..n -> {<<1, 0>>, <<3, 4>>}]
                   \cup { [k \in 1..(n + 1) |-> <<1, 0>>] } }

\* the locals of a call that has not started
NewFrame ==
    [pc |-> "start", threshold |-> 0, minChunkLength |-> 0,
     maxChunkLength |-> 0, sentences |-> <<>>, embeddings |-> <<>>,
     returned |-> <<>>, error |-> "none"]

\* lines 202-246: from the start of a call to its await, or to its return
BeforeAwait(args) ==
    IF NoMessages(TRUE, args.messages)
    THEN [NewFrame EXCEPT !.pc = "done"]
    ELSE LET sents == PrepareSentences(args.messages, <<>>)
         IN  [NewFrame EXCEPT
                !.threshold      = OrDefault(args.options.threshold,
                                             SIMILARITY_THRESHOLD),
                !.minChunkLength = OrDefault(args.options.minChunkLength,
                                             MIN_CHUNK_LENGTH),
                !.maxChunkLength = OrDefault(args.options.maxChunkLength,
                                             MAX_CHUNK_LENGTH),
                !.sentences      = sents,
                !.pc             = IF NoSentences(sents)
                                   THEN "done" ELSE "await"]

\* lines 264-304: the loop from the sentence of 0-based index k on, and the
\* last finalization
RECURSIVE WalkFrom(_, _, _, _)
WalkFrom(frame, chunk, chs, k) ==
    IF k < Len(frame.sentences)
    THEN IF StepSimilarity(frame.embeddings, k).threw
         THEN [threw |-> TRUE, chunks |-> chs]
         ELSE IF Similar(StepSimilarity(frame.embeddings, k).value[1],
                         frame.threshold)
         THEN WalkFrom(frame,
                       PushSentence(chunk, frame.sentences, frame.embeddings, k),
                       chs, k + 1)
         ELSE WalkFrom(frame,
                       NewChunk(frame.sentences, frame.embeddings, k),
                       PushFinalized(chs, finalizeChunk(chunk,
                                                        frame.minChunkLength,
                                                        frame.maxChunkLength)),
                       k + 1)
    ELSE [threw  |-> FALSE,
          chunks |-> PushFinalized(chs, finalizeChunk(chunk,
                                                      frame.minChunkLength,
                                                      frame.maxChunkLength))]

\* lines 246-304: from the settling of the awaited promise to the return or
\* the throw
AfterAwait(frame, outcome) ==
    IF outcome.rejected
    THEN [frame EXCEPT !.pc = "failed",
                       !.error = "Failed to generate embeddings for semantic chunking"]
    ELSE IF CountMismatch(outcome.embeddings, frame.sentences)
    THEN [frame EXCEPT !.pc = "failed",
                       !.embeddings = outcome.embeddings,
                       !.error = "Embedding count mismatch"]
    ELSE LET resumed == [frame EXCEPT !.embeddings = outcome.embeddings]
             walk    == WalkFrom(resumed,
                                 NewChunk(resumed.sentences,
                                          resumed.embeddings, 0),
                                 <<>>, 1)
         IN  IF walk.threw
             THEN [resumed EXCEPT !.pc = "failed",
                                  !.error = "Vector length mismatch"]
             ELSE [resumed EXCEPT !.pc = "done", !.returned = walk.chunks]

\* (variant: the locals are kept at module level, where the call started
\* last has left its own)
FrameOfLastStarted(fs, c) ==
    IF \E o \in DOMAIN fs : o # c /\ fs[o].pc # "start"
    THEN fs[CHOOSE o \in DOMAIN fs : o # c /\ fs[o].pc # "start"]
    ELSE fs[c]

\* the const and let bindings of lines 206-264 belong to the call
FrameOf(fs, c) == fs[c]

InitConcurrent ==
    /\ ChunkIdle
    /\ TextIdle
    /\ SimIdle
    /\ EmbeddingsIdle
    /\ LaterIdle
    /\ callArgs \in [Calls -> [messages : ConcurrentMessageArrays,
                               options  : ConcurrentOptions]]
    /\ frames = [c \in Calls |-> NewFrame]
    /\ outcomes = [c \in Calls |-> [rejected |-> FALSE, embeddings |-> <<>>]]

\* a call runs from its start to its await
CallStart(c) ==
    /\ frames[c].pc = "start"
    /\ frames' = [frames EXCEPT ![c] = BeforeAwait(callArgs[c])]
    /\ UNCHANGED <<callArgs, outcomes>>
    /\ UNCHANGED <<chunkVars, textVars, simVars, embVars, laterVars>>

\* the promise a call awaits settles and the call runs to its end
CallResume(c) ==
    /\ frames[c].pc = "await"
    /\ \E outcome \in ConcurrentOutcomes(Len(frames[c].sentences)) :
          /\ frames' = [frames EXCEPT
                          ![c] = AfterAwait(FrameOf(frames, c), outcome)]
          /\ outcomes' = [outcomes EXCEPT ![c] = outcome]
    /\ UNCHANGED callArgs
    /\ UNCHANGED <<chunkVars, textVars, simVars, embVars, laterVars>>

NextConcurrent ==
    \/ \E c \in Calls : CallStart(c)
    \/ \E c \in Calls : CallResume(c)

SpecConcurrent == InitConcurrent /\ [][NextConcurrent]_vars

\* ------------------------------------------------------------------------
\* C15
\* ------------------------------------------------------------------------

\* what a call with these arguments has when it runs alone and its provider
\* call settles to this outcome
Alone(args, outcome) ==
    LET suspended == BeforeAwait(args)
    IN  IF suspended.pc = "done" THEN suspended
        ELSE AfterAwait(suspended, outcome)

C15_WitnessBoth ==
    /\ frames[1].pc = "done"
    /\ frames[2].pc = "done"
    /\ Len(frames[1].returned) > 0
    /\ Len(frames[2].returned) > 0
    /\ frames[1].returned # frames[2].returned

\* ------------------------------------------------------------------------
\* The exported text functions called on their own, with any value
\* ------------------------------------------------------------------------

\* the variables of the state machines defined above
earlierVars == <<chunkVars, textVars, simVars, embVars, concurrentVars>>

\* none of the state machines defined above is running
EarlierIdle ==
    /\ ChunkIdle
    /\ TextIdle
    /\ SimIdle
    /\ EmbeddingsIdle
    /\ ConcurrentIdle

\* longest string passed to the text functions
MaxGuardLen == 3

\* the strings: letters, spaces and full stops
GuardStrings == UNION { [1..n -> {"a", " ", "."}] : n \in 0..MaxGuardLen }

\* the values passed as text: every falsy value, values of the other types,
\* and strings
GuardValues ==
    { JsUndefined, JsNull, JsObject, JsBoolean(FALSE), JsBoolean(TRUE),
      JsNumber(0), JsNumber(7), JsArray(<<>>) }
    \cup { JsString(s) : s \in GuardStrings }

\* the values passed as suffix
GuardSuffixes == { JsUndefined, JsNull, JsString(<<>>), JsString(<<".", ".">>) }

InitGuards ==
    /\ EarlierIdle
    /\ SplitIdle
    /\ ListenerIdle
    /\ UrlIdle
    /\ gPc = "start"
    /\ gFn = "none"
    /\ gText \in GuardValues
    /\ gLength \in { {} } \cup { {n} : n \in 0..MaxGuardLen }
    /\ gSuffix \in GuardSuffixes
    /\ gResult = Returns(JsUndefined)

\* normalizeText(text)
CallNormalizeText ==
    /\ gPc = "start"
    /\ gFn' = "normalizeText"
    /\ gResult' = normalizeTextOf(gText)
    /\ gPc' = "done"
    /\ UNCHANGED <<gText, gLength, gSuffix, earlierVars, splitVars,
                   listenerVars, urlVars>>

\* splitIntoSentences(text)
CallSplitIntoSentences ==
    /\ gPc = "start"
    /\ gFn' = "splitIntoSentences"
    /\ gResult' = splitIntoSentencesOf(gText)
    /\ gPc' = "done"
    /\ UNCHANGED <<gText, gLength, gSuffix, earlierVars, splitVars,
                   listenerVars, urlVars>>

\* isTooShort(text, minLength)
CallIsTooShort ==
    /\ gPc = "start"
    /\ gFn' = "isTooShort"
    /\ gResult' = isTooShort(gText, gLength)
    /\ gPc' = "done"
    /\ UNCHANGED <<gText, gLength, gSuffix, earlierVars, splitVars,
                   listenerVars, urlVars>>

\* truncateText(text, maxLength, suffix), maxLength a number
CallTruncateText ==
    /\ gPc = "start"
    /\ gLength # {}
    /\ gFn' = "truncateText"
    /\ gResult' = truncateText(gText, OrDefaultUndefined(gLength, 0), gSuffix)
    /\ gPc' = "done"
    /\ UNCHANGED <<gText, gLength, gSuffix, earlierVars, splitVars,
                   listenerVars, urlVars>>

NextGuards ==
    \/ CallNormalizeText
    \/ CallSplitIntoSentences
    \/ CallIsTooShort
    \/ CallTruncateText

SpecGuards == InitGuards /\ [][NextGuards]_vars

\* ------------------------------------------------------------------------
\* C21
\* ------------------------------------------------------------------------

\* what each function returns for a text that is empty or not a string
EmptyResult(fn) ==
    CASE fn = "normalizeText"      -> JsString(<<>>)
      [] fn = "splitIntoSentences" -> JsArray(<<>>)
      [] fn = "truncateText"       -> JsString(<<>>)
      [] fn = "isTooShort"         -> JsBoolean(TRUE)

\* C21: no call of the four functions throws, whatever its arguments, and a
\* call with a text that is empty, null, undefined or not a string returns
\* '', [], '' and true.
C21_NeverThrows ==
    gPc = "done" =>
       /\ ~gResult.threw
       /\ NotText(gText) => gResult.value = EmptyResult(gFn)

\* ------------------------------------------------------------------------
\* splitIntoSentences as a state machine: one step for each match of the
\* regular expression
\* ------------------------------------------------------------------------

\* longest text passed to splitIntoSentences
MaxSplitLen == 7

\* a lowercase letter, an uppercase letter, a digit, a full stop, a space
SplitAlphabet == {"a", "B", "1", ".", " "}

SplitTexts == UNION { [1..n -> SplitAlphabet] : n \in 0..MaxSplitLen }

\* the variables of the other state machines
notSplitVars == <<earlierVars, guardVars, listenerVars, urlVars>>

InitSplit ==
    /\ EarlierIdle
    /\ GuardIdle
    /\ ListenerIdle
    /\ UrlIdle
    /\ spPc = "start"
    /\ spText \in SplitTexts
    /\ spNormalized = <<>>
    /\ spRegexIndex = 0
    /\ spLastIndex = 0
    /\ spSentences = <<>>
    /\ spReturned = <<>>
    /\ spSpans = <<>>
    /\ spDecisions = <<>>

\* line 45: the candidate sentence of the match at index
Candidate(normalized, lastIndex, index) ==
    Trim(Substring(normalized, lastIndex, index + 1))

\* line 48
LongEnoughCandidate(sentence) == Len(sentence) > 0 /\ Len(sentence) > 2

\* lines 50-51: beforeChar && /[A-Za-z]/.test(beforeChar)
IsAbbreviation(normalized, index) ==
    index - 1 >= 0 /\ normalized[index] \in Letters

\* lines 55-57: the tests that send a match to the abbreviation branches
LooksAtNextChar(normalized, index) ==
    IsAbbreviation(normalized, index) /\ index + 2 < Len(normalized)

\* lines 56-57: afterSpace && /[A-Z]/.test(afterSpace)
AfterIsCapital(normalized, index) == normalized[index + 3] \in UpperCase

\* what is recorded of a match: its index, the candidate, the characters
\* before the mark and after the space (<<>> when there is none), whether
\* text is left after the match, and what was done
Decision(normalized, lastIndex, index, done) ==
    [index     |-> index,
     start     |-> lastIndex,
     candidate |-> Candidate(normalized, lastIndex, index),
     before    |-> IF index - 1 >= 0 THEN <<normalized[index]>> ELSE <<>>,
     after     |-> IF index + 2 < Len(normalized)
                   THEN <<normalized[index + 3]>> ELSE <<>>,
     more      |-> index + MatchLength(normalized, index) < Len(normalized),
     done      |-> done]

\* lines 21-30: nothing to split
SplitNothing ==
    /\ spPc = "start"
    /\ \/ spText = <<>>
       \/ Len(ReplaceWhitespaceRuns(Trim(spText))) = 0
    /\ spReturned' = <<>>
    /\ spPc' = "done"
    /\ UNCHANGED <<spText, spNormalized, spRegexIndex, spLastIndex,
                   spSentences, spSpans, spDecisions, notSplitVars>>

\* lines 26-41: the text is normalized and the loop starts
SplitBegin ==
    /\ spPc = "start"
    /\ spText # <<>>
    /\ Len(ReplaceWhitespaceRuns(Trim(spText))) # 0
    /\ spNormalized' = ReplaceWhitespaceRuns(Trim(spText))
    /\ spRegexIndex' = 0
    /\ spLastIndex' = 0
    /\ spSentences' = <<>>
    /\ spPc' = "loop"
    /\ UNCHANGED <<spText, spReturned, spSpans, spDecisions, notSplitVars>>

\* line 48, the test fails: the candidate is too short, the loop goes on
MatchTooShort ==
    /\ spPc = "loop"
    /\ NextMatch(spNormalized, spRegexIndex) # -1
    /\ LET index == NextMatch(spNormalized, spRegexIndex)
       IN  /\ ~LongEnoughCandidate(Candidate(spNormalized, spLastIndex, index))
           /\ spRegexIndex' = index + MatchLength(spNormalized, index)
           /\ spDecisions' = Append(spDecisions,
                 Decision(spNormalized, spLastIndex, index, "short"))
    /\ UNCHANGED <<spPc, spText, spNormalized, spLastIndex, spSentences,
                   spReturned, spSpans, notSplitVars>>

\* lines 63-66: the next character is not a capital, the loop goes on
MatchAbbreviation ==
    /\ spPc = "loop"
    /\ NextMatch(spNormalized, spRegexIndex) # -1
    /\ LET index == NextMatch(spNormalized, spRegexIndex)
       IN  /\ LongEnoughCandidate(Candidate(spNormalized, spLastIndex, index))
           /\ LooksAtNextChar(spNormalized, index)
           /\ ~AfterIsCapital(spNormalized, index)
           /\ spRegexIndex' = index + MatchLength(spNormalized, index)
           /\ spDecisions' = Append(spDecisions,
                 Decision(spNormalized, spLastIndex, index, "abbreviation"))
    /\ UNCHANGED <<spPc, spText, spNormalized, spLastIndex, spSentences,
                   spReturned, spSpans, notSplitVars>>

\* lines 58-62 and 67-71: the candidate is pushed
MatchPush ==
    /\ spPc = "loop"
    /\ NextMatch(spNormalized, spRegexIndex) # -1
    /\ LET index == NextMatch(spNormalized, spRegexIndex)
       IN  /\ LongEnoughCandidate(Candidate(spNormalized, spLastIndex, index))
           /\ LooksAtNextChar(spNormalized, index)
                 => AfterIsCapital(spNormalized, index)
           /\ spSentences' = Append(spSentences,
                 Candidate(spNormalized, spLastIndex, index))
           /\ spSpans' = Append(spSpans, [start |-> spLastIndex,
                                          end   |-> index + 1])
           /\ spLastIndex' = index + MatchLength(spNormalized, index)
           /\ spRegexIndex' = index + MatchLength(spNormalized, index)
           /\ spDecisions' = Append(spDecisions,
                 Decision(spNormalized, spLastIndex, index, "push"))
    /\ UNCHANGED <<spPc, spText, spNormalized, spReturned, notSplitVars>>

\* lines 75-88: no match is left; the remaining text, and the whole text
\* when nothing was pushed
SplitReturn ==
    /\ spPc = "loop"
    /\ NextMatch(spNormalized, spRegexIndex) = -1
    /\ LET remaining == Trim(Substring(spNormalized, spLastIndex,
                                       Len(spNormalized)))
           pushes    == spLastIndex < Len(spNormalized) /\ Len(remaining) > 0
           sents     == IF pushes THEN Append(spSentences, remaining)
                        ELSE spSentences
           spans     == IF pushes
                        THEN Append(spSpans, [start |-> spLastIndex,
                                              end   |-> Len(spNormalized)])
                        ELSE spSpans
       IN  /\ spSentences' = sents
           /\ spReturned' = IF Len(sents) = 0 THEN <<spNormalized>> ELSE sents
           /\ spSpans' = IF Len(sents) = 0
                         THEN <<[start |-> 0, end |-> Len(spNormalized)]>>
                         ELSE spans
    /\ spPc' = "done"
    /\ UNCHANGED <<spText, spNormalized, spRegexIndex, spLastIndex,
                   spDecisions, notSplitVars>>

NextSplit ==
    \/ SplitNothing
    \/ SplitBegin
    \/ MatchTooShort
    \/ MatchAbbreviation
    \/ MatchPush
    \/ SplitReturn

SpecSplit == InitSplit /\ [][NextSplit]_vars

\* the steps return what the function splitIntoSentences of the chunker
\* returns
SplitAgrees == spPc = "done" => spReturned = splitIntoSentences(spText)

\* ------------------------------------------------------------------------
\* C22
\* ------------------------------------------------------------------------

\* the 0-based indices of the sentence ends of s: a mark followed by
\* whitespace or by the end of the text
Boundaries(s) ==
    { k \in 0..(Len(s) - 1) :
        /\ s[k + 1] \in SentenceEnd
        /\ (k + 1 = Len(s) \/ s[k + 2] \in Whitespace) }

\* the text without its whitespace
Squeeze(s) == SelectSeq(s, LAMBDA c : c \notin Whitespace)

RECURSIVE Concat(_)
Concat(texts) ==
    IF texts = <<>> THEN <<>> ELSE Head(texts) \o Concat(Tail(texts))

\* the 0-based index of the first character of the sentence that ends at the
\* boundary k: after the whitespace that follows the boundary before
SentenceStart(s, k) ==
    LET before == { b \in Boundaries(s) : b < k }
    IN  IF before = {} THEN RunLength(s, 0, Whitespace)
        ELSE LET b == CHOOSE x \in before : \A y \in before : y <= x
             IN  b + 1 + RunLength(s, b + 1, Whitespace)

\* the text is made of sentences, each of three characters or more, each
\* ended by a mark followed by whitespace or by the end of the text, none
\* beginning with a lowercase letter after the first (no mark is the full
\* stop of an abbreviation)
GenuineSentences(s) ==
    /\ Trim(s) # <<>>
    /\ Trim(s)[Len(Trim(s))] \in SentenceEnd
    /\ \A k \in Boundaries(s) :
          /\ k + 1 - SentenceStart(s, k) >= 3
          /\ SentenceStart(s, k) > RunLength(s, 0, Whitespace)
                => s[SentenceStart(s, k) + 1] \notin LowerCase

\* C22: for a text made of N genuine sentences splitIntoSentences returns N
\* sentences, none empty, whose concatenation is the text up to whitespace.
C22_CountConservation ==
    (spPc = "done" /\ GenuineSentences(spText)) =>
       /\ Len(spReturned) = Cardinality(Boundaries(spText))
       /\ \A k \in 1..Len(spReturned) : Len(spReturned[k]) > 0
       /\ Squeeze(Concat(spReturned)) = Squeeze(spText)

\* ------------------------------------------------------------------------
\* C23
\* ------------------------------------------------------------------------

\* the returned sentence of span r holds characters of the candidate of the
\* decision d
Holds_Candidate(r, d) == r.start < d.index + 1 /\ d.start < r.end

\* the returned sentence of span r ends at a sentence end of the text
CutAtBoundary(r) == r.end - 1 \in Boundaries(spNormalized)

\* C23: when splitIntoSentences has returned, the text of a candidate of
\* fewer than 3 characters is in no returned sentence, and no returned
\* sentence that ends at a mark has fewer than 3 characters.
C23_ShortDropped ==
    spPc = "done" =>
       /\ \A j \in 1..Len(spDecisions), k \in 1..Len(spSpans) :
             Len(spDecisions[j].candidate) < 3
                => ~Holds_Candidate(spSpans[k], spDecisions[j])
       /\ \A k \in 1..Len(spSpans) :
             CutAtBoundary(spSpans[k]) => Len(spReturned[k]) >= 3

\* ------------------------------------------------------------------------
\* C24
\* ------------------------------------------------------------------------

\* the text was split at the match of the decision d: the candidate was
\* pushed and text is left after it
SplitAt(d) == d.done = "push" /\ d.more

\* C24: at a match with text after it, when the character before the mark
\* is a letter the text is split if the next character is an uppercase
\* letter and is not split if it is a lowercase letter; when the character
\* before is not a letter the text is split.  At a match that ends the text
\* nothing is split off.
C24_AbbreviationHeuristic ==
    \A j \in 1..Len(spDecisions) :
       LET d == spDecisions[j]
       IN  IF ~d.more THEN ~SplitAt(d)
           ELSE IF d.before # <<>> /\ d.before[1] \in Letters
           THEN /\ d.after[1] \in UpperCase => SplitAt(d)
                /\ d.after[1] \in LowerCase => ~SplitAt(d)
           ELSE SplitAt(d)

\* the same holds of the candidates of 3 characters or more: only the short
\* candidates depart from the heuristic
C24_LongCandidates ==
    \A j \in 1..Len(spDecisions) :
       LET d == spDecisions[j]
       IN  Len(d.candidate) >= 3 =>
             IF ~d.more THEN ~SplitAt(d)
             ELSE IF d.before # <<>> /\ d.before[1] \in Letters
             THEN /\ d.after[1] \in UpperCase => SplitAt(d)
                  /\ d.after[1] \in LowerCase => ~SplitAt(d)
             ELSE SplitAt(d)

\* ------------------------------------------------------------------------
\* C25
\* ------------------------------------------------------------------------

\* C25: the content of every chunk emitted by semanticChunk has at most
\* maxChunkLength characters.
C25_MaximumLength ==
    pc \in {"walk", "done"} =>
       \A k \in 1..Len(chunks) : Len(chunks[k].content) <= maxChunkLength

\* ------------------------------------------------------------------------
\* C29
\* ------------------------------------------------------------------------

\* some sentence of the accumulator is client-authored
AnyClient(chunk) ==
    \E m \in 1..Len(chunk.sentences) : chunk.sentences[m].author_role = "client"

\* the running role is client exactly when a sentence is client-authored
RoleInvariant(chunk) == chunk.author_role = "client" <=> AnyClient(chunk)

\* C29: at every step of the walk the running author_role of the open
\* accumulator is client if and only if one of its sentences is
\* client-authored; so it is for every accumulator when it is finalized, and
\* the role of the chunk emitted is the running role.
C29_RunningRole ==
    /\ pc = "walk" => RoleInvariant(currentChunk)
    /\ \A j \in Accumulators :
          /\ RoleInvariant(finalized[j].accumulator)
          /\ Emitted(j) =>
                finalized[j].result.author_role
                   = finalized[j].accumulator.author_role

\* the open accumulator was seeded by a team sentence and a client sentence
\* was pushed to it
C29_Witness ==
    /\ pc = "walk"
    /\ Len(currentChunk.sentences) >= 2
    /\ currentChunk.sentences[1].author_role = "team"
    /\ currentChunk.sentences[2].author_role = "client"
    /\ currentChunk.author_role = "client"

\* such an accumulator was emitted
C29_WitnessEmitted ==
    \E j \in Accumulators :
       /\ Emitted(j)
       /\ finalized[j].accumulator.sentences[1].author_role = "team"
       /\ AnyClient(finalized[j].accumulator)
       /\ finalized[j].result.author_role = "client"

\* ------------------------------------------------------------------------
\* C30
\* ------------------------------------------------------------------------

\* the sentence indices of accumulator j, in the order held
IndicesOf(j) ==
    [m \in 1..Len(finalized[j].accumulator.sentences) |->
       finalized[j].accumulator.sentences[m].message_index]

\* the sum of the sizes of the accumulators 1..j
RECURSIVE SizeSum(_)
SizeSum(j) ==
    IF j = 0 THEN 0
    ELSE Len(finalized[j].accumulator.sentences) + SizeSum(j - 1)

\* the sum of the sentence_count of the chunks 1..k
RECURSIVE CountSum(_, _)
CountSum(chs, k) ==
    IF k = 0 THEN 0 ELSE chs[k].metadata.sentence_count + CountSum(chs, k - 1)

\* the sum of the sizes of the discarded accumulators among 1..j
RECURSIVE DiscardedSum(_)
DiscardedSum(j) ==
    IF j = 0 THEN 0
    ELSE (IF Emitted(j) THEN 0 ELSE Len(finalized[j].accumulator.sentences))
         + DiscardedSum(j - 1)

\* C30: each finalized accumulator is a run of consecutive sentences that
\* starts where the one before ends, the first at sentence 0; the chunks are
\* those of the emitted accumulators in that order, each with the length of
\* its run as sentence_count; and when semanticChunk has returned, the
\* sentence_count of the chunks and the sizes of the discarded accumulators
\* add up to the number of sentences.
C30_ContiguousRuns ==
    /\ \A j \in Accumulators :
          /\ Len(IndicesOf(j)) >= 1
          /\ IndicesOf(j)[1] = SizeSum(j - 1)
          /\ \A m \in 1..Len(IndicesOf(j)) :
                IndicesOf(j)[m] = IndicesOf(j)[1] + m - 1
          /\ Emitted(j) =>
                /\ Rank(j) <= Len(chunks)
                /\ chunks[Rank(j)] = finalized[j].result
                /\ chunks[Rank(j)].metadata.sentence_count
                      = Len(IndicesOf(j))
    /\ pc = "done" =>
          /\ returned = chunks
          /\ Len(returned) = Cardinality({j \in Accumulators : Emitted(j)})
          /\ CountSum(returned, Len(returned))
                + DiscardedSum(Len(finalized)) = Len(sentences)

\* two chunks of several sentences were returned and an accumulator between
\* them was discarded
C30_Witness ==
    /\ pc = "done"
    /\ Len(returned) >= 2
    /\ \E j \in Accumulators :
          /\ ~Emitted(j)
          /\ \E h \in Accumulators : h < j /\ Emitted(h)
          /\ \E h \in Accumulators : h > j /\ Emitted(h)
    /\ \E j \in Accumulators :
          Emitted(j) /\ Len(finalized[j].accumulator.sentences) >= 2

\* ------------------------------------------------------------------------
\* The live listener (src/index-live-listener.ts): the handler of
\* MessageCreate.  A run of the handler takes one step from an await to the
\* next; the awaited calls that touch neither processedMessageIds nor the
\* table questions (logging, analytics, link tracking) are part of the step
\* that follows them.
\* ------------------------------------------------------------------------

\* largest number of MessageCreate events delivered
MaxEvents == 3

MessageIds == {1, 2}

Channels == {1, 2}

\* a message: its author (a team member, a client or a bot), its channel,
\* whether its content holds one of the generalKeywords, and its content
MessageKinds ==
    { [author |-> "team", channel |-> 1, general |-> FALSE, content |-> "r1"],
      [author |-> "team", channel |-> 1, general |-> TRUE, content |-> "r2"],
      [author |-> "team", channel |-> 2, general |-> FALSE, content |-> "r1"],
      [author |-> "client", channel |-> 1, general |-> FALSE, content |-> "c1"],
      [author |-> "bot", channel |-> 1, general |-> FALSE, content |-> "c1"] }

\* a row of questions; message is the id in discord_msg_link (0 for the rows
\* of the backfill)
Question(channel, status, content, message) ==
    [channel_id |-> channel, status |-> status, content |-> content,
     message |-> message]

\* the table when the listener starts
InitialTables ==
    { << Question(1, "open", "q1", 0), Question(1, "pending", "q2", 0),
         Question(2, "open", "q3", 0) >>,
      << Question(1, "open", "q1", 0), Question(2, "open", "q3", 0) >>,
      << Question(1, "resolved", "q1", 0), Question(2, "open", "q3", 0) >> }

InitListener ==
    /\ EarlierIdle
    /\ GuardIdle
    /\ SplitIdle
    /\ UrlIdle
    /\ inbox \in [MessageIds -> MessageKinds]
    /\ processedMessageIds = {}
    /\ handlers = <<>>
    /\ questionsTable \in InitialTables
    /\ resolveCalls = <<>>

notListenerVars == <<earlierVars, guardVars, splitVars, urlVars>>

\* lines 557-565: the message is from a bot (the other filters, on the guild,
\* the channel name and the length, return the same way)
Filtered(message) == message.author = "bot"

\* (variant: the id is not recorded when the message is taken)
MarkProcessedLater(ids, id) == ids

\* line 567: processedMessageIds.add(message.id)
MarkProcessed(ids, id) == ids \cup {id}

\* a run of the handler for the message id, at the position at
Handler(id, at, entered) ==
    [id |-> id, pc |-> at, entered |-> entered, unresolved |-> {},
     matched |-> {}]

\* lines 556-580 and 659: a MessageCreate event; the handler runs to its
\* first return or await
MessageCreate(id) ==
    /\ Len(handlers) < MaxEvents
    /\ IF Filtered(inbox[id])
       THEN /\ handlers' = Append(handlers, Handler(id, "filtered", FALSE))
            /\ UNCHANGED processedMessageIds
       ELSE IF id \in processedMessageIds
       THEN /\ handlers' = Append(handlers, Handler(id, "duplicate", FALSE))
            /\ UNCHANGED processedMessageIds
       ELSE /\ processedMessageIds' = MarkProcessed(processedMessageIds, id)
            /\ handlers' = Append(handlers,
                  Handler(id, IF inbox[id].author = "team"
                              THEN "unresolved" ELSE "exists", TRUE))
    /\ UNCHANGED <<inbox, questionsTable, resolveCalls, notListenerVars>>

\* lines 234-250: the rows of the channel that are open or pending
UnresolvedIn(table, channelId) ==
    { q \in 1..Len(table) :
        /\ table[q].channel_id = channelId
        /\ table[q].status \in {"open", "pending"} }

\* lines 580-604: getUnresolvedQueries returns, the rows read or [] on an
\* error; analyzeResponseQuality is awaited
GetUnresolvedReturns(h) ==
    /\ handlers[h].pc = "unresolved"
    /\ \E rows \in { UnresolvedIn(questionsTable, inbox[handlers[h].id].channel),
                     {} } :
          handlers' = [handlers EXCEPT ![h].unresolved = rows,
                                       ![h].pc = IF rows = {} THEN "links"
                                                 ELSE "matching"]
    /\ UNCHANGED <<inbox, processedMessageIds, questionsTable, resolveCalls,
                   notListenerVars>>

\* lines 295-357: what matchReplyToQuery may return for the queries: nothing
\* for none, the one query, all of them for a general reply, for a failure
\* of the completion or for an answer that does not parse, and otherwise the
\* array the model answered, ids being any ids
MatchResults(message, queries, ids) ==
    IF queries = {} THEN { {} }
    ELSE IF Cardinality(queries) = 1 THEN { queries }
    ELSE IF message.general THEN { queries }
    ELSE { queries } \cup SUBSET ids

\* lines 605-635: matchReplyToQuery returns; resolveQueries is called with
\* the ids returned when there are some
MatchReturns(h) ==
    /\ handlers[h].pc = "matching"
    /\ \E ids \in MatchResults(inbox[handlers[h].id], handlers[h].unresolved,
                               1..Len(questionsTable)) :
          /\ handlers' = [handlers EXCEPT ![h].matched = ids,
                                          ![h].pc = IF ids = {} THEN "links"
                                                    ELSE "resolving"]
          /\ resolveCalls' =
                IF ids = {} THEN resolveCalls
                ELSE Append(resolveCalls,
                            [handler    |-> h,
                             queryIds   |-> ids,
                             unresolved |-> handlers[h].unresolved])
    /\ UNCHANGED <<inbox, processedMessageIds, questionsTable,
                   notListenerVars>>

\* lines 443-445: UPDATE questions SET status = 'resolved' WHERE id IN
\* (queryIds)
ResolveRows(table, queryIds) ==
    [q \in 1..Len(table) |->
       IF q \in queryIds THEN [table[q] EXCEPT !.status = "resolved"]
       ELSE table[q]]

\* lines 442-445: the update of resolveQueries is applied
ResolveApplied(h) ==
    /\ handlers[h].pc = "resolving"
    /\ questionsTable' = ResolveRows(questionsTable, handlers[h].matched)
    /\ handlers' = [handlers EXCEPT ![h].pc = "links"]
    /\ UNCHANGED <<inbox, processedMessageIds, resolveCalls, notListenerVars>>

\* lines 454-456: the update fails, the error is logged
ResolveFails(h) ==
    /\ handlers[h].pc = "resolving"
    /\ handlers' = [handlers EXCEPT ![h].pc = "links"]
    /\ UNCHANGED <<inbox, processedMessageIds, questionsTable, resolveCalls,
                   notListenerVars>>

\* lines 643-655: the links are tracked and the handler returns
LinksTracked(h) ==
    /\ handlers[h].pc = "links"
    /\ handlers' = [handlers EXCEPT ![h].pc = "done"]
    /\ UNCHANGED <<inbox, processedMessageIds, questionsTable, resolveCalls,
                   notListenerVars>>

\* lines 202-222: a row of the channel links to the message, or has its
\* content (the rows of a run are all of the last hour)
ExistsIn(table, id, message) ==
    \E q \in 1..Len(table) :
       /\ table[q].channel_id = message.channel
       /\ table[q].message = id \/ table[q].content = message.content

\* lines 659-660: messageExistsInDatabase returns; false on an error
ExistsReturns(h) ==
    /\ handlers[h].pc = "exists"
    /\ \E exists \in { ExistsIn(questionsTable, handlers[h].id,
                                inbox[handlers[h].id]), FALSE } :
          handlers' = [handlers EXCEPT ![h].pc = IF exists THEN "done"
                                                 ELSE "triage"]
    /\ UNCHANGED <<inbox, processedMessageIds, questionsTable, resolveCalls,
                   notListenerVars>>

\* lines 662-689: the triage returns a Question or a Bug; insertQuestion is
\* called
TriageQuestion(h) ==
    /\ handlers[h].pc = "triage"
    /\ handlers' = [handlers EXCEPT ![h].pc = "inserting"]
    /\ UNCHANGED <<inbox, processedMessageIds, questionsTable, resolveCalls,
                   notListenerVars>>

\* lines 662-710: the triage returns General; the metrics are updated and
\* the handler returns
TriageGeneral(h) ==
    /\ handlers[h].pc = "triage"
    /\ handlers' = [handlers EXCEPT ![h].pc = "done"]
    /\ UNCHANGED <<inbox, processedMessageIds, questionsTable, resolveCalls,
                   notListenerVars>>

\* lines 366-417 and 689-710: the row is inserted, or the insert fails; the
\* metrics are updated and the handler returns
InsertReturns(h) ==
    /\ handlers[h].pc = "inserting"
    /\ \/ questionsTable' =
             Append(questionsTable,
                    Question(inbox[handlers[h].id].channel, "open",
                             inbox[handlers[h].id].content, handlers[h].id))
       \/ UNCHANGED questionsTable
    /\ handlers' = [handlers EXCEPT ![h].pc = "done"]
    /\ UNCHANGED <<inbox, processedMessageIds, resolveCalls, notListenerVars>>

NextListener ==
    \/ \E id \in MessageIds : MessageCreate(id)
    \/ \E h \in 1..Len(handlers) : GetUnresolvedReturns(h)
    \/ \E h \in 1..Len(handlers) : MatchReturns(h)
    \/ \E h \in 1..Len(handlers) : ResolveApplied(h)
    \/ \E h \in 1..Len(handlers) : ResolveFails(h)
    \/ \E h \in 1..Len(handlers) : LinksTracked(h)
    \/ \E h \in 1..Len(handlers) : ExistsReturns(h)
    \/ \E h \in 1..Len(handlers) : TriageQuestion(h)
    \/ \E h \in 1..Len(handlers) : TriageGeneral(h)
    \/ \E h \in 1..Len(handlers) : InsertReturns(h)

SpecListener == InitListener /\ [][NextListener]_vars

\* ------------------------------------------------------------------------
\* C26
\* ------------------------------------------------------------------------

\* the runs of the handler that went past the test of line 566 for the
\* message id
Entered(id) ==
    { h \in 1..Len(handlers) : handlers[h].id = id /\ handlers[h].entered }

\* C26: the processing of a message id is entered by at most one run of the
\* handler, whatever the events delivered and the interleaving of the runs.
C26_EnteredOnce == \A id \in MessageIds : Cardinality(Entered(id)) <= 1

\* a second event for a message was turned away while the run of the first
\* is still suspended at an await
C26_Witness ==
    \E h, g \in 1..Len(handlers) :
       /\ h < g
       /\ handlers[h].id = handlers[g].id
       /\ handlers[h].entered
       /\ handlers[h].pc \in {"matching", "resolving", "triage", "inserting"}
       /\ handlers[g].pc = "duplicate"

\* ------------------------------------------------------------------------
\* C28
\* ------------------------------------------------------------------------

\* C28: every id passed to resolveQueries is the id of a question that
\* getUnresolvedQueries returned to the same run of the handler.
C28_OnlyMatchedOpen ==
    \A c \in 1..Len(resolveCalls) :
       resolveCalls[c].queryIds \subseteq resolveCalls[c].unresolved

\* ------------------------------------------------------------------------
\* The URL extractor (src/lib/url-extractor.ts).  A string is a sequence of
\* pieces, each piece a fixed run of characters; positions in a string
\* (lastIndex) are counted in characters.
\* ------------------------------------------------------------------------

\* largest number of pieces of the contents of the calls of a run, taken
\* together
MaxPieces == 7

Scheme == "https://"

LoomShare == "loom.com/share/"

LoomId == "a1"

Blank == " "

Pieces == {Scheme, LoomShare, LoomId, Blank}

\* the number of characters of a piece
PieceLength(p) ==
    CASE p = Scheme -> 8
      [] p = LoomShare -> 15
      [] p = LoomId -> 2
      [] p = Blank -> 1

\* the number of characters at the head of a piece that [a-zA-Z0-9] takes
AlnumPrefix(p) ==
    CASE p = Scheme -> 5
      [] p = LoomShare -> 4
      [] p = LoomId -> 2
      [] p = Blank -> 0

RECURSIVE StringLength(_)
\* s.length
StringLength(s) ==
    IF s = <<>> THEN 0 ELSE PieceLength(Head(s)) + StringLength(Tail(s))

\* the position of the first character of the piece k of s (of the end of s
\* for k = Len(s) + 1)
Offset(s, k) == StringLength(SubSeq(s, 1, k - 1))

\* the contents of n pieces
UrlContents(n) == [1..n -> Pieces]

\* line 13, URL_REGEX at the piece k: the scheme, then every character up to
\* the next white space, of which there is at least one; every piece but the
\* blank is made of characters of the class and ends with a character the
\* last class takes.  The piece after the match, or 0 for no match.
UrlEndAt(s, k) ==
    IF s[k] # Scheme THEN 0
    ELSE LET stops == { j \in (k + 1)..Len(s) : s[j] = Blank }
             end   == IF stops = {} THEN Len(s) + 1
                      ELSE CHOOSE j \in stops : \A m \in stops : j <= m
         IN  IF end > k + 1 THEN end ELSE 0

RECURSIVE MatchUrls(_, _)
\* line 73: content.match(URL_REGEX), the matches from the piece k on, left
\* to right and without overlap
MatchUrls(s, k) ==
    IF k > Len(s) THEN <<>>
    ELSE IF UrlEndAt(s, k) = 0 THEN MatchUrls(s, k + 1)
    ELSE <<SubSeq(s, k, UrlEndAt(s, k) - 1)>> \o MatchUrls(s, UrlEndAt(s, k))

RECURSIVE IdEnd(_, _)
\* [a-zA-Z0-9]+ from the piece k on: the position after the characters taken
IdEnd(s, k) ==
    IF k > Len(s) THEN Offset(s, k)
    ELSE IF AlnumPrefix(s[k]) = PieceLength(s[k]) THEN IdEnd(s, k + 1)
    ELSE Offset(s, k) + AlnumPrefix(s[k])

\* line 16, LOOM_URL_REGEX at the piece k: the scheme, loom.com/share/ and
\* at least one character of the id.  The position after the match, or 0 for
\* no match.
LoomEndAt(s, k) ==
    IF /\ k + 2 <= Len(s)
       /\ s[k] = Scheme
       /\ s[k + 1] = LoomShare
       /\ IdEnd(s, k + 2) > Offset(s, k + 2)
    THEN IdEnd(s, k + 2)
    ELSE 0

\* RegExp.prototype.test of a regular expression with the flag g: the search
\* starts at lastIndex; a match leaves lastIndex after it, a failure sets
\* lastIndex to 0
LoomTest(s, lastIndex) ==
    LET starts == { k \in 1..Len(s) :
                      Offset(s, k) >= lastIndex /\ LoomEndAt(s, k) # 0 }
        first  == CHOOSE k \in starts : \A j \in starts : k <= j
    IN  IF lastIndex > StringLength(s) \/ starts = {}
        THEN [found |-> FALSE, lastIndex |-> 0]
        ELSE [found |-> TRUE, lastIndex |-> LoomEndAt(s, first)]

RECURSIVE FilterLoom(_, _)
\* line 76: allUrls.filter(url => !LOOM_URL_REGEX.test(url)), with the
\* lastIndex the tests leave
FilterLoom(urls, lastIndex) ==
    IF urls = <<>> THEN [kept |-> <<>>, lastIndex |-> lastIndex]
    ELSE LET test == LoomTest(Head(urls), lastIndex)
             rest == FilterLoom(Tail(urls), test.lastIndex)
         IN  [kept |-> IF test.found THEN rest.kept
                       ELSE <<Head(urls)>> \o rest.kept,
              lastIndex |-> rest.lastIndex]

notUrlVars == <<earlierVars, guardVars, splitVars, listenerVars>>

InitUrls ==
    /\ EarlierIdle
    /\ GuardIdle
    /\ SplitIdle
    /\ ListenerIdle
    /\ UrlIdle

\* line 71: extractURLs('') returns []
ExtractNothing ==
    /\ urlContent' = <<>>
    /\ allUrls' = <<>>
    /\ nonLoomUrls' = <<>>
    /\ UNCHANGED <<loomLastIndex, urlPieces, notUrlVars>>

\* lines 70-79: extractURLs(content)
ExtractURLs ==
    /\ \E n \in 1..(MaxPieces - urlPieces) :
       \E content \in UrlContents(n) :
          LET all      == MatchUrls(content, 1)
              filtered == FilterLoom(all, loomLastIndex)
          IN  /\ urlContent' = content
              /\ allUrls' = all
              /\ nonLoomUrls' = filtered.kept
              /\ loomLastIndex' = filtered.lastIndex
              /\ urlPieces' = urlPieces + n
    /\ UNCHANGED notUrlVars

NextUrls ==
    \/ ExtractNothing
    \/ ExtractURLs

SpecUrls == InitUrls /\ [][NextUrls]_vars

\* ------------------------------------------------------------------------
\* C27
\* ------------------------------------------------------------------------

\* the URL matches the Loom pattern
IsLoomUrl(url) == LoomTest(url, 0).found

\* the URLs of the list that do not match the Loom pattern
NonLoom(list) == SelectSeq(list, LAMBDA u : ~IsLoomUrl(u))

\* C27: after every call of extractURLs, no URL returned matches the Loom
\* pattern, and every URL found in the content that does not match it is
\* returned.
C27_LoomFiltered ==
    /\ \A n \in 1..Len(nonLoomUrls) : ~IsLoomUrl(nonLoomUrls[n])
    /\ NonLoom(allUrls) = NonLoom(nonLoomUrls)

\* the second half alone: the URLs that do not match the Loom pattern are
\* all returned, in their order
C27_NonLoomReturned == NonLoom(allUrls) = NonLoom(nonLoomUrls)

====
